---- MODULE Spec2Model ----
(***************************************************************************)
(* DropTea transfer engine: the outbound transfer (send_file,              *)
(* handle_sending), the inbound transfer (handle_incoming), the user       *)
(* acceptance arbitration (resolve_request) and the two concurrency        *)
(* limiters, modelled from src/src/core/{engine,handlers,transfer,utils,   *)
(* security}.rs.                                                           *)
(*                                                                         *)
(* A connection c joins one sending side and one receiving side.  Each     *)
(* side is either this program (send_file / handle_incoming) or a remote   *)
(* peer that may put anything on the stream (the Peer* actions).           *)
(* Bytes are small naturals, a read returns one byte, and time is          *)
(* abstracted: a timeout may fire whenever the awaited input is absent.    *)
(***************************************************************************)
EXTENDS Integers, Sequences, FiniteSets, TLC

----------------------------------------------------------------------------
(* Bounds of the model *)

\* length of a source file, in bytes
MaxFileLen == 2
\* largest ACK status byte a remote peer writes
MaxAckStatus == 2

(* Program constants *)

\* engine.rs: outgoing_limiter: Arc::new(Semaphore::new(50))
OUTGOING_PERMITS == 50
\* engine.rs: incoming_limiter: Arc::new(Semaphore::new(5))
INCOMING_PERMITS == 5

----------------------------------------------------------------------------
VARIABLES
    req,            \* [conns -> the arguments of the send_file call on c]
    outTask,        \* [conns -> the task send_file spawned: pc, sent, events]
    outgoingAvail,  \* permits left in outgoing_limiter
    otherSends,     \* further send_file tasks that hold an outgoing permit
    wire,           \* [conns -> what is on the stream of c]
    inTask,         \* [conns -> the handle_incoming task of c and its locals]
    incomingAvail,  \* permits left in incoming_limiter
    otherIncoming,  \* further handle_incoming tasks that hold an inbound permit
    pending,        \* pending_transfers: task_id -> the connection whose tx it holds
    chan,           \* [conns -> UserResponse messages queued on the task's rx]
    whitelist,      \* trusted_senders of <save_path>/security/whitelist.json
    fs,             \* save_path: the paths that exist -> inode
    data,           \* inode -> content of the file
    dev_mode,       \* DropTeaConfig.dev_mode
    known_hosts,    \* SecurityManager.known_hosts: peer_id -> fingerprint, in memory
    hosts_file,     \* the store <storage_path>/security/known_hosts.json holds
    tofu_callback,  \* TofuVerifier.callback is Some
    tofu_last,      \* the latest check_cert call: its inputs and its result
    handshakes,     \* the check_cert calls of handshakes under way at the same time
    known_peers,    \* DiscoveryEngine.known_peers: id -> PeerInfo
    probes,         \* id -> number of spawned health probes that have not finished
    peers_lost,     \* the ids on_peer_lost was called with
    peer_calls,     \* the callback calls of the latest discovery step
    probe_removing, \* id -> probe tasks between their on_peer_lost and their remove
    host_peers,     \* the ids the host was told found and not told lost since
    quic_pool,      \* QuicTransport.connections: remote address -> Connection
    quic_lock,      \* the RwLock around it: who reads, who writes
    quic_call,      \* each QuicTransport::connect call: where it is, what it holds
    quic_closed,    \* the Connections whose close_reason() is Some
    quic_accept,    \* the accepting end: Connections taken, streams returned
    pipe,           \* one copy_pipeline call: its channels, buffers and counters
    node,           \* one DropTeaCore: its listener's port and the ports it announced
    scan,           \* one BLE advertisement seen by the scanner and what was made of it
    browse,         \* one service the mDNS browser resolved and what was made of it
    listener        \* the accept loop of start_service and the remotes that connect to it

vars == << req, outTask, outgoingAvail, otherSends, wire, inTask, incomingAvail,
           otherIncoming, pending, chan, whitelist, fs, data, dev_mode,
           known_hosts, hosts_file, tofu_callback, tofu_last, handshakes,
           known_peers, probes, peers_lost, peer_calls, probe_removing, host_peers,
           quic_pool, quic_lock, quic_call, quic_closed, quic_accept, pipe, node, scan, browse,
           listener >>

\* the trust store of the TLS and QUIC transports
secVars == << known_hosts, hosts_file, tofu_callback, tofu_last, handshakes >>
\* the engine's state outside the transfers
\* the peer table of the discovery engine
discVars == << known_peers, probes, peers_lost, peer_calls, probe_removing, host_peers >>
\* the connection pool of the QUIC transport
poolVars == << quic_pool, quic_lock, quic_call, quic_closed, quic_accept >>
\* the parts looked at on their own
auxVars == << pipe, node, scan, browse, listener >>
restVars == << secVars, discVars, poolVars, auxVars >>

outVars == << outTask, outgoingAvail >>
inVars == << inTask, incomingAvail, pending, chan, whitelist, fs, data >>
hostVars == << req, otherSends, otherIncoming, dev_mode, restVars >>
\* everything the transfers read or write
\* the transfers' own state
coreVars == << outVars, inVars, wire, req, otherSends, otherIncoming, dev_mode >>
transferVars == << outVars, inVars, wire, req, otherSends, otherIncoming, dev_mode, auxVars >>

conns == DOMAIN outTask

----------------------------------------------------------------------------
(* Values *)

FileNames == {"notes.txt", "notes.pdf"}
SenderNames == {"alice", "bob"}
\* the sender names in whitelist.json when the engine starts
InitialWhitelist == {"alice"}
\* a regular file; a path that cannot be opened; a path that opens but has
\* no final component ("..", "/"), for which Path::file_name() is None
PathKinds == {"file", "missing", "nofilename"}
\* readings of SystemTime::now() in nanoseconds, as a file name suffix
ClockReadings == {"_1700000000000000001", "_1700000000000000002"}
\* the task_id the host passes to send_file for connection c
SendTaskId(c) == "send" \o ToString(c)
\* the bytes of the source file of the call on c
SourceBytes(c, len) == [ i \in 1..len |-> 10 * c + i ]

NoHeader == [ kind |-> "none", filename |-> "", filesize |-> 0, sender_name |-> "",
              sender_device |-> "" ]
PartialHeader == [ NoHeader EXCEPT !.kind = "partial" ]
MalformedHeader == [ NoHeader EXCEPT !.kind = "malformed" ]
\* transfer.rs FileHeader { filename, filesize, sender_name, .. }
FileHeader(filename, filesize, sender_name) ==
    [ kind |-> "valid", filename |-> filename, filesize |-> filesize,
      sender_name |-> sender_name, sender_device |-> "linux" ]

\* transfer.rs pack_ack(status, offset): the status byte, then the offset
pack_ack(status, offset) == << status, offset >>

\* a stream not yet established
NewWire == [ est |-> FALSE, hdr |-> NoHeader, body |-> << >>, up |-> "open",
             ack |-> << >>, down |-> "open" ]

\* events.rs TransferEvent, as EventHandlerAdapter builds them
Event(ev, task_id, info) ==
    [ ev |-> ev, task_id |-> task_id, info |-> info, current |-> 0, total |-> 0 ]
\* EventHandlerAdapter::ask_accept_file: the text an Incoming event carries
RequestData(h) ==
    "[[REQUEST]]|" \o h.filename \o "|" \o ToString(h.filesize) \o "|"
      \o h.sender_name \o "|" \o h.sender_device
ProgressEvent(task_id, current, total) ==
    [ ev |-> "Progress", task_id |-> task_id, info |-> "",
      current |-> current, total |-> total ]

NoPath == [ stem |-> "", sfx |-> "", ext |-> "" ]
PathString(p) == p.stem \o p.sfx \o p.ext
\* Path::file_stem and Path::extension of the file names of the model
file_stem(f) == CASE f = "notes.txt" -> "notes" [] f = "notes.pdf" -> "notes"
extension(f) == CASE f = "notes.txt" -> ".txt" [] f = "notes.pdf" -> ".pdf"
\* PathBuf::with_extension("part")
with_extension_part(p) == [ p EXCEPT !.ext = ".part" ]

NewOutTask == [ pc |-> "idle", permit |-> FALSE, ack |-> << >>, sent |-> 0,
                events |-> << >> ]
NewInTask == [ pc |-> "idle", hdr |-> NoHeader, permit |-> FALSE,
               is_trusted |-> FALSE, decision |-> "", loaded |-> {},
               path |-> NoPath, ino |-> 0, buf |-> << >>, acks |-> << >>,
               events |-> << >>, result |-> "" ]

----------------------------------------------------------------------------
(* Outbound: engine.rs send_file, handlers.rs handle_sending *)

\* send_file: rt.spawn(..) of the transfer task
send_file(c) ==
    /\ outTask[c].pc = "idle"
    /\ outTask' = [ outTask EXCEPT ![c].pc = "spawned" ]
    /\ UNCHANGED << outgoingAvail, wire, inVars, hostVars >>

\* the task returns (or unwinds): _p and the stream are dropped
SendReturn(c, events, w) ==
    /\ outTask' = [ outTask EXCEPT ![c].pc = "done", ![c].permit = FALSE,
                                   ![c].events = @ \o events ]
    /\ outgoingAvail' = IF outTask[c].permit THEN outgoingAvail + 1 ELSE outgoingAvail
    /\ wire' = [ wire EXCEPT ![c] =
                   [ w EXCEPT !.up = IF w.est /\ w.up = "open" THEN "dropped" ELSE w.up ] ]

\* the spawned task: limiter.acquire().await takes a permit once one is left;
\* then transport.connect, and handle_sending up to the header write
send_file_connect(c) ==
    /\ outTask[c].pc = "spawned"
    /\ outgoingAvail > 0
    /\ LET w == [ wire[c] EXCEPT !.est = TRUE ] IN
       \E outcome \in {"connect_err", "ok", "header_err"} :
         CASE outcome = "connect_err" ->
                \* Err(e) => h.on_event(TransferEvent::Error { task_id, .. })
                SendReturn(c, << Event("Error", req[c].task_id, "connect") >>, wire[c])
           [] outcome = "ok" /\ req[c].path = "missing" ->
                \* AsyncFile::open(&path).await.context(..)? on the open stream
                SendReturn(c, << Event("Error", req[c].task_id, "Failed to open source file") >>, w)
           [] outcome = "ok" /\ req[c].path = "nofilename" ->
                \* Path::new(&path).file_name().unwrap() panics: the task unwinds
                SendReturn(c, << >>, w)
           [] outcome = "ok" /\ req[c].path = "file" ->
                /\ wire' = [ wire EXCEPT ![c] = [ w EXCEPT !.hdr =
                               FileHeader(req[c].filename, req[c].len, req[c].my_name) ] ]
                /\ outTask' = [ outTask EXCEPT ![c].pc = "waitAck", ![c].permit = TRUE ]
                /\ outgoingAvail' = outgoingAvail - 1
           [] outcome = "header_err" /\ req[c].path = "file" ->
                \* stream.write_all(..).await? of the length or of the JSON fails
                \E h \in {NoHeader, PartialHeader} :
                     SendReturn(c, << Event("Error", req[c].task_id, "io") >>,
                                [ w EXCEPT !.hdr = h ])
           [] OTHER -> FALSE
    /\ UNCHANGED << inVars, hostVars >>

\* handle_sending: timeout(USER_DECISION_TIMEOUT, stream.read_exact(&mut ack))
handle_sending_ack(c) ==
    /\ outTask[c].pc = "waitAck"
    /\ \E outcome \in {"read", "timeout"} :
         IF outcome = "read"
           THEN /\ wire[c].ack # << >>
                /\ LET ack == Head(wire[c].ack)
                       w == [ wire[c] EXCEPT !.ack = Tail(@) ]
                   IN  IF ack[1] = 0
                         THEN SendReturn(c, << Event("Rejected", req[c].task_id, "Receiver Rejected") >>, w)
                         ELSE \* callback.on_start(&task_id, &header.filename)
                              /\ outTask' = [ outTask EXCEPT ![c].pc = "streaming", ![c].ack = ack,
                                      ![c].events = Append(@, Event("Started", req[c].task_id, req[c].filename)) ]
                              /\ wire' = [ wire EXCEPT ![c] = w ]
                              /\ UNCHANGED outgoingAvail
           ELSE \* no complete ACK has arrived when the timer fires, or the read fails
                SendReturn(c, << Event("Rejected", req[c].task_id, "Timeout") >>, wire[c])
    /\ UNCHANGED << inVars, hostVars >>

\* copy_pipeline(file -> encoder): one chunk read from the file and written
handle_sending_chunk(c) ==
    /\ outTask[c].pc = "streaming"
    /\ outTask[c].sent < req[c].len
    /\ \E outcome \in {"ok", "err"} :
         IF outcome = "ok"
           THEN LET uploaded == outTask[c].sent + 1 IN
                /\ outTask' = [ outTask EXCEPT ![c].sent = uploaded,
                        ![c].events = IF uploaded = req[c].len
                          THEN Append(@, ProgressEvent(req[c].task_id, uploaded, req[c].len))
                          ELSE @ ]
                /\ wire' = [ wire EXCEPT ![c].body =
                               Append(@, SourceBytes(c, req[c].len)[uploaded]) ]
                /\ UNCHANGED outgoingAvail
           ELSE \* read error, read timeout, write error or write timeout:
                \* copy_pipeline(..).await? returns Err to send_file
                SendReturn(c, << Event("Error", req[c].task_id, "io") >>, wire[c])
    /\ UNCHANGED << inVars, hostVars >>

\* the file is at EOF: copy_pipeline returns Ok, then encoder.shutdown()
handle_sending_finish(c) ==
    /\ outTask[c].pc = "streaming"
    /\ outTask[c].sent = req[c].len
    /\ \E outcome \in {"ok", "err"} :
         IF outcome = "ok"
           THEN SendReturn(c, << Event("Completed", req[c].task_id, "Success") >>,
                           [ wire[c] EXCEPT !.up = "fin" ])
           ELSE SendReturn(c, << Event("Error", req[c].task_id, "io") >>, wire[c])
    /\ UNCHANGED << inVars, hostVars >>

----------------------------------------------------------------------------
(* Inbound: engine.rs start_service, handlers.rs handle_incoming *)

MapPut(m, k, v) == [ x \in DOMAIN m \cup {k} |-> IF x = k THEN v ELSE m[x] ]
MapDel(m, k) == [ x \in DOMAIN m \ {k} |-> m[x] ]

\* a whitelist check that trusts every sender
is_trusted_anyone(sender_name) == TRUE

\* security::is_trusted(&save_path, sender_name): a SecurityManager is built
\* from whitelist.json and asked
is_trusted(sender_name) == sender_name \in whitelist

\* utils.rs get_unique_path(dir, raw_filename); exists is the set of paths
\* in dir, nanos the reading of the clock
get_unique_path(exists, raw_filename, nanos) ==
    LET base_path == [ stem |-> file_stem(raw_filename), sfx |-> "",
                       ext |-> extension(raw_filename) ]
        try_simple == [ base_path EXCEPT !.sfx = "_1" ]
    IN  IF PathString(base_path) \notin exists THEN base_path
        ELSE IF PathString(try_simple) \notin exists THEN try_simple
        ELSE [ base_path EXCEPT !.sfx = nanos ]

\* a file written at offset 0 through a handle: bytes beyond buf stay
WriteAt0(buf, old) ==
    [ i \in 1..(IF Len(buf) > Len(old) THEN Len(buf) ELSE Len(old)) |->
        IF i <= Len(buf) THEN buf[i] ELSE old[i] ]

\* an ACK write that puts status 1 on the stream whatever it is given
WriteAckAccepting(w, status) == [ w EXCEPT !.ack = Append(@, pack_ack(1, 0)) ]

\* stream.write_all(&pack_ack(status, 0)) that reaches the peer
WriteAck(w, status) == [ w EXCEPT !.ack = Append(@, pack_ack(status, 0)) ]

\* handle_incoming returns result to the task start_service spawned: the
\* permit, the stream and the file handle are dropped; an Err is reported to
\* the host only if is_dev
InReturn(c, t, result, w) ==
    LET report == IF result = "Err" /\ dev_mode
                    THEN << Event("Error", "incoming", "failed") >> ELSE << >>
    IN  /\ inTask' = [ inTask EXCEPT ![c] =
                [ t EXCEPT !.pc = "done", !.result = result, !.permit = FALSE,
                           !.events = @ \o report ] ]
        /\ incomingAvail' = IF t.permit THEN incomingAvail + 1 ELSE incomingAvail
        /\ wire' = [ wire EXCEPT ![c] = [ w EXCEPT !.down = "closed" ] ]

\* a limiter that never refuses, and one that still grants at 0 permits
try_acquire_always(permits) == TRUE
try_acquire_at_zero(permits) == permits >= 0
\* Semaphore::try_acquire() on a limiter with so many permits left is Ok
try_acquire(permits) == permits > 0

\* start_service: transport.accept() returns the stream of c and
\* handle_incoming is spawned on it; its steps 1-4, up to the wait for the
\* user's decision
handle_incoming_header(c) ==
    /\ wire[c].est
    /\ inTask[c].pc = "idle"
    /\ LET h == wire[c].hdr
           t == [ inTask[c] EXCEPT !.hdr = h ]
           task_id == h.filename
       IN CASE h.kind = "none" /\ wire[c].up = "open" ->
                 \* Err(_) => return Ok(()): IO_TIMEOUT with nothing read
                 /\ InReturn(c, inTask[c], "Ok", wire[c])
                 /\ UNCHANGED << pending, chan >>
            [] h.kind \in {"none", "partial"} /\ wire[c].up # "open" ->
                 \* UnexpectedEof on the length: Ok; another error, or the
                 \* header body cut short: Err
                 /\ \E r \in {"Ok", "Err"} :
                      /\ (r = "Err" \/ h.kind = "none" \/ wire[c].up = "fin" \/ wire[c].up = "dropped")
                      /\ InReturn(c, inTask[c], r, wire[c])
                 /\ UNCHANGED << pending, chan >>
            [] h.kind = "malformed" ->
                 \* bail!("Header too large"), or "Invalid header JSON"
                 /\ InReturn(c, inTask[c], "Err", wire[c])
                 /\ UNCHANGED << pending, chan >>
            [] h.kind = "valid" /\ ~try_acquire(incomingAvail) ->
                 \* limiter.try_acquire() is Err
                 /\ InReturn(c, [ t EXCEPT !.acks = Append(@, pack_ack(0, 0)),
                                    !.events = Append(@, Event("Rejected", task_id, "System Busy")) ],
                             "Ok", WriteAck(wire[c], 0))
                 /\ UNCHANGED << pending, chan >>
            [] h.kind = "valid" /\ try_acquire(incomingAvail) /\ is_trusted(h.sender_name) ->
                 /\ incomingAvail' = incomingAvail - 1
                 /\ inTask' = [ inTask EXCEPT ![c] = [ t EXCEPT !.pc = "prepare", !.permit = TRUE,
                                    !.is_trusted = TRUE, !.events = Append(@, Event("Started", task_id, h.filename)) ] ]
                 /\ UNCHANGED << wire, pending, chan >>
            [] h.kind = "valid" /\ try_acquire(incomingAvail) /\ ~is_trusted(h.sender_name) ->
                 /\ incomingAvail' = incomingAvail - 1
                 /\ pending' = MapPut(pending, task_id, c)
                 /\ chan' = [ chan EXCEPT ![c] = << >> ]
                 /\ inTask' = [ inTask EXCEPT ![c] = [ t EXCEPT !.pc = "awaiting", !.permit = TRUE,
                                    !.events = Append(@, Event("Incoming", task_id, RequestData(h))) ] ]
                 /\ UNCHANGED wire
            [] OTHER -> FALSE
    /\ UNCHANGED << outVars, whitelist, fs, data, hostVars >>

\* a resolve_request that leaves the entry in the map
resolve_request_keeping(task_id, accept) ==
    /\ IF task_id \in DOMAIN pending
         THEN LET k == pending[task_id]
                  resp == IF accept THEN "Accept" ELSE "Decline"
              IN  /\ pending' = pending
                  /\ chan' = IF inTask[k].pc = "awaiting"
                               THEN [ chan EXCEPT ![k] = Append(@, resp) ] ELSE chan
         ELSE UNCHANGED << pending, chan >>
    /\ UNCHANGED << outVars, wire, inTask, incomingAvail, whitelist, fs, data, hostVars >>

\* engine.rs resolve_request(task_id, accept)
resolve_request(task_id, accept) ==
    /\ IF task_id \in DOMAIN pending
         THEN LET k == pending[task_id]
                  resp == IF accept THEN "Accept" ELSE "Decline"
              IN  /\ pending' = MapDel(pending, task_id)
                  \* let _ = tx.send(resp): fails once the rx is dropped
                  /\ chan' = IF inTask[k].pc = "awaiting"
                               THEN [ chan EXCEPT ![k] = Append(@, resp) ] ELSE chan
         ELSE UNCHANGED << pending, chan >>
    /\ UNCHANGED << outVars, wire, inTask, incomingAvail, whitelist, fs, data, hostVars >>

\* handle_incoming: timeout(USER_DECISION_TIMEOUT, rx.recv()) returns, the
\* entry of task_id is removed; on Accept security::add_trust builds its
\* SecurityManager from whitelist.json
handle_incoming_decision(c) ==
    /\ inTask[c].pc = "awaiting"
    /\ LET t == inTask[c]
           task_id == t.hdr.filename
           decision == IF chan[c] # << >> THEN Head(chan[c]) ELSE "Timeout"
       IN  /\ pending' = MapDel(pending, task_id)
           /\ chan' = [ chan EXCEPT ![c] = << >> ]
           /\ IF decision = "Accept"
                THEN /\ inTask' = [ inTask EXCEPT ![c].pc = "trust", ![c].decision = decision,
                                                  ![c].loaded = whitelist ]
                     /\ UNCHANGED << wire, incomingAvail >>
                ELSE InReturn(c, [ t EXCEPT !.decision = decision,
                                     !.acks = Append(@, pack_ack(0, 0)),
                                     !.events = Append(@, Event("Rejected", task_id, "User Rejected")) ],
                              "Ok", WriteAck(wire[c], 0))
    /\ UNCHANGED << outVars, whitelist, fs, data, hostVars >>

\* SecurityManager::add_trust(sender_name) on the store that was loaded:
\* the store to save, or the file as it is when the name is in the store
add_trust(loaded, sender_name) ==
    IF sender_name \in loaded THEN whitelist ELSE loaded \cup {sender_name}

\* handle_incoming after the decision; on the accepted path add_trust saves
\* the whitelist; steps 5-6: get_unique_path, open the .part file, ACK(1,0)
handle_incoming_prepare(c) ==
    /\ inTask[c].pc \in {"trust", "prepare"}
    /\ whitelist' = IF inTask[c].pc = "trust"
                      THEN add_trust(inTask[c].loaded, inTask[c].hdr.sender_name)
                      ELSE whitelist
    /\ \E nanos \in ClockReadings, outcome \in {"open_err", "ack_err", "ok"} :
         LET t == inTask[c]
             final_path == get_unique_path(DOMAIN fs, t.hdr.filename, nanos)
             temp_path == PathString(with_extension_part(final_path))
             \* create(true).truncate(true): the existing file, emptied, or a new one
             ino == IF temp_path \in DOMAIN fs THEN fs[temp_path] ELSE c
             opened == [ t EXCEPT !.path = final_path, !.ino = ino,
                                  !.acks = Append(@, pack_ack(1, 0)) ]
         IN  CASE outcome = "open_err" ->
                    /\ InReturn(c, t, "Err", wire[c])
                    /\ UNCHANGED << fs, data >>
               [] outcome = "ack_err" /\ wire[c].up # "open" ->
                    \* stream.write_all(&pack_ack(1, 0)).await? fails
                    /\ fs' = MapPut(fs, temp_path, ino)
                    /\ data' = MapPut(data, ino, << >>)
                    /\ InReturn(c, opened, "Err", wire[c])
               [] outcome = "ok" ->
                    /\ fs' = MapPut(fs, temp_path, ino)
                    /\ data' = MapPut(data, ino, << >>)
                    /\ inTask' = [ inTask EXCEPT ![c] = [ opened EXCEPT !.pc = "streaming" ] ]
                    /\ wire' = [ wire EXCEPT ![c] = WriteAck(@, 1) ]
                    /\ UNCHANGED incomingAvail
               [] OTHER -> FALSE
    /\ UNCHANGED << outVars, pending, chan, hostVars >>

\* copy_pipeline(decoder -> buffered_file): one chunk read and written
handle_incoming_chunk(c) ==
    /\ inTask[c].pc = "streaming"
    /\ Len(inTask[c].buf) < Len(wire[c].body)
    /\ LET t == inTask[c]
           uploaded == Len(t.buf) + 1
       IN  inTask' = [ inTask EXCEPT ![c].buf = Append(@, wire[c].body[uploaded]),
                         ![c].events = IF uploaded = t.hdr.filesize
                            THEN Append(@, ProgressEvent(t.hdr.filename, uploaded, t.hdr.filesize))
                            ELSE @ ]
    /\ UNCHANGED << outVars, wire, incomingAvail, pending, chan, whitelist, fs, data, hostVars >>

\* the decoder reports EOF: copy_pipeline returns Ok; flush, sync_all, rename,
\* on_complete
handle_incoming_eof(c) ==
    /\ inTask[c].pc = "streaming"
    /\ Len(inTask[c].buf) = Len(wire[c].body)
    /\ wire[c].up \in {"fin", "dropped"}
    /\ \E outcome \in {"flush_err", "rename_err", "ok"} :
         LET t == inTask[c]
             final_path == PathString(t.path)
             temp_path == PathString(with_extension_part(t.path))
             flushed == [ data EXCEPT ![t.ino] = WriteAt0(t.buf, @) ]
         IN  CASE outcome = "flush_err" ->
                    \* buffered_file.flush().await? or inner.sync_all().await?
                    /\ InReturn(c, t, "Err", wire[c])
                    /\ UNCHANGED << fs, data >>
               [] outcome = "rename_err" \/ temp_path \notin DOMAIN fs ->
                    \* tokio_fs::rename(&temp_path, &final_path).await?
                    /\ data' = flushed
                    /\ InReturn(c, t, "Err", wire[c])
                    /\ UNCHANGED fs
               [] OTHER ->
                    /\ data' = flushed
                    /\ fs' = MapPut(MapDel(fs, temp_path), final_path, fs[temp_path])
                    /\ InReturn(c, [ t EXCEPT !.events =
                                       Append(@, Event("Completed", t.hdr.filename, final_path)) ],
                                "Ok", wire[c])
    /\ UNCHANGED << outVars, pending, chan, whitelist, hostVars >>

\* copy_pipeline returns Err (read error or timeout, decoder error, write
\* error or timeout): remove_file(&temp_path), Err(e)
handle_incoming_fail(c) ==
    /\ inTask[c].pc = "streaming"
    /\ fs' = MapDel(fs, PathString(with_extension_part(inTask[c].path)))
    /\ InReturn(c, inTask[c], "Err", wire[c])
    /\ UNCHANGED << outVars, pending, chan, whitelist, data, hostVars >>

----------------------------------------------------------------------------
(* Remote peers and the rest of the load *)

\* the peer at the receiving end of c is not this program: it writes an ACK
\* frame with any status byte
PeerAck(c, status) ==
    /\ wire[c].est
    /\ wire[c].ack = << >>
    /\ wire' = [ wire EXCEPT ![c] = WriteAck(@, status) ]
    /\ UNCHANGED << outVars, inVars, hostVars >>

\* another send_file task passes limiter.acquire().await
OtherSendAcquire ==
    /\ outgoingAvail > 0
    /\ outgoingAvail' = outgoingAvail - 1
    /\ otherSends' = otherSends + 1
    /\ UNCHANGED << req, outTask, wire, inVars, otherIncoming, dev_mode, restVars >>

\* another send_file task returns: its _p is dropped
OtherSendReturn ==
    /\ otherSends > 0
    /\ otherSends' = otherSends - 1
    /\ outgoingAvail' = outgoingAvail + 1
    /\ UNCHANGED << req, outTask, wire, inVars, otherIncoming, dev_mode, restVars >>

\* another handle_incoming task passes limiter.try_acquire()
OtherIncomingAcquire ==
    /\ incomingAvail > 0
    /\ incomingAvail' = incomingAvail - 1
    /\ otherIncoming' = otherIncoming + 1
    /\ UNCHANGED << outVars, wire, inTask, pending, chan, whitelist, fs, data,
                    req, otherSends, dev_mode, restVars >>

\* another handle_incoming task returns: its _permit is dropped
OtherIncomingReturn ==
    /\ otherIncoming > 0
    /\ otherIncoming' = otherIncoming - 1
    /\ incomingAvail' = incomingAvail + 1
    /\ UNCHANGED << outVars, wire, inTask, pending, chan, whitelist, fs, data,
                    req, otherSends, dev_mode, restVars >>

----------------------------------------------------------------------------
(* Scenarios *)

\* the two concurrent transfers of the end-to-end and the sender scenarios
Transfers == {1, 2}
\* the observed transfer of the load scenario
Observed == {1}

\* no check_cert call yet
NoCheck == [ via |-> "", target |-> "", peer_id |-> "", fingerprint |-> "", known |-> {},
             callback |-> FALSE, asked |-> FALSE, answer |-> "", result |-> "" ]

\* the trust store of an engine whose transports verified nothing yet
InitSecurity ==
    /\ known_hosts = << >>
    /\ hosts_file = << >>
    /\ tofu_callback = FALSE
    /\ tofu_last = NoCheck
    /\ handshakes = << >>

\* a discovery engine that has heard of nobody
InitDiscovery ==
    /\ known_peers = << >>
    /\ probes = << >>
    /\ peers_lost = { }
    /\ peer_calls = << >>
    /\ probe_removing = << >>
    /\ host_peers = { }

\* a QUIC transport nobody has called yet
InitPool ==
    /\ quic_pool = << >>
    /\ quic_lock = [ readers |-> { }, writer |-> 0 ]
    /\ quic_call = << >>
    /\ quic_closed = { }
    /\ quic_accept = [ awaiting |-> 0, taken |-> { }, served |-> { } ]

\* no copy_pipeline call is looked at on its own
InitAux ==
    /\ pipe = << >>
    /\ node = << >>
    /\ scan = << >>
    /\ browse = << >>
    /\ listener = << >>

SendRequest(c, path, filename, len, my_name) ==
    [ task_id |-> SendTaskId(c), path |-> path, filename |-> filename,
      len |-> len, my_name |-> my_name ]

\* the send_file calls on the connections C, with their paths among P
SendRequests(C, P) ==
    { [ c \in C |-> SendRequest(c, f[c][1], f[c][2], MaxFileLen, f[c][3]) ] :
        f \in [ C -> P \X FileNames \X SenderNames ] }

InitEngine(C) ==
    /\ outTask = [ c \in C |-> NewOutTask ]
    /\ outgoingAvail = OUTGOING_PERMITS
    /\ otherSends = 0
    /\ wire = [ c \in C |-> NewWire ]
    /\ inTask = [ c \in C |-> NewInTask ]
    /\ incomingAvail = INCOMING_PERMITS
    /\ otherIncoming = 0
    /\ pending = << >>
    /\ chan = [ c \in C |-> << >> ]
    /\ whitelist = InitialWhitelist
    /\ fs = << >>
    /\ data = << >>
    /\ dev_mode = FALSE
    /\ InitSecurity
    /\ InitDiscovery
    /\ InitPool
    /\ InitAux

Outbound ==
    \/ \E c \in conns : send_file(c)
    \/ \E c \in conns : send_file_connect(c)
    \/ \E c \in conns : handle_sending_ack(c)
    \/ \E c \in conns : handle_sending_chunk(c)
    \/ \E c \in conns : handle_sending_finish(c)

Inbound ==
    \/ \E c \in conns : handle_incoming_header(c)
    \/ \E task_id \in FileNames, accept \in BOOLEAN : resolve_request(task_id, accept)
    \/ \E c \in conns : handle_incoming_decision(c)
    \/ \E c \in conns : handle_incoming_prepare(c)
    \/ \E c \in conns : handle_incoming_chunk(c)
    \/ \E c \in conns : handle_incoming_eof(c)
    \/ \E c \in conns : handle_incoming_fail(c)

(* End to end: each connection is a send_file call of one node, served by   *)
(* handle_incoming of another node.                                         *)
Init ==
    /\ InitEngine(Transfers)
    /\ req \in SendRequests(Transfers, {"file"})

Next == Outbound \/ Inbound

Spec == Init /\ [][Next]_vars

(* The sender against any peer: send_file calls with every kind of path,    *)
(* the receiving end writes any ACK.                                        *)
InitSender ==
    /\ InitEngine(Transfers)
    /\ req \in SendRequests(Transfers, PathKinds)

NextSender ==
    \/ Outbound
    \/ \E c \in conns, status \in 0..MaxAckStatus : PeerAck(c, status)

SpecSender == InitSender /\ [][NextSender]_vars

(* Load: one observed transfer, end to end, among other transfers that     *)
(* take and return permits of the two limiters.                             *)
InitLoad ==
    /\ InitEngine(Observed)
    /\ req \in SendRequests(Observed, PathKinds)

NextLoad ==
    \/ Outbound
    \/ Inbound
    \/ OtherSendAcquire
    \/ OtherSendReturn
    \/ OtherIncomingAcquire
    \/ OtherIncomingReturn

SpecLoad == InitLoad /\ [][NextLoad]_vars

----------------------------------------------------------------------------
(* Properties of the inbound transfer *)

\* what a task told the host so far
Emitted(events, ev) == { i \in DOMAIN events : events[i].ev = ev }
\* the step in which handle_incoming of c returns
Returns(c) == inTask[c].pc # "done" /\ inTask'[c].pc = "done"
\* the .part path of the transfer task t
TempPathOf(t) == PathString(with_extension_part(t.path))

\* C1: whenever handle_incoming emits on_complete(final_path) for a header
\* that announces filesize N, the file at final_path holds exactly the N bytes
\* the sender read from its source, in order, and the .part file of the
\* transfer is gone.
C1_CompleteFileIsSource ==
    [][ \A c \in conns :
          (Emitted(inTask[c].events, "Completed") = {}
             /\ Emitted(inTask'[c].events, "Completed") # {})
          => LET t == inTask'[c]
                 final_path == PathString(t.path)
             IN  /\ final_path \in DOMAIN fs'
                 /\ data'[fs'[final_path]] = SourceBytes(c, t.hdr.filesize)
                 /\ TempPathOf(t) \notin DOMAIN fs' ]_vars

\* C2: when handle_incoming returns Err after it opened the .part file, the
\* .part file does not exist any more.
C2_FailedLeavesNoPart ==
    [][ \A c \in conns :
          (Returns(c) /\ inTask'[c].result = "Err" /\ inTask'[c].path # NoPath)
          => TempPathOf(inTask'[c]) \notin DOMAIN fs' ]_vars

----------------------------------------------------------------------------
(* Properties of the limiters *)

\* the tasks that hold a permit of incoming_limiter, of outgoing_limiter
InboundHolders == Cardinality({ c \in conns : inTask[c].permit }) + otherIncoming
OutboundHolders == Cardinality({ c \in conns : outTask[c].permit }) + otherSends

\* C3: at most 5 inbound tasks hold an inbound permit and at most 50 outbound
\* tasks hold an outbound permit; every permit taken is either left in its
\* limiter or held by a task, and a task holds its permit from the
\* acquisition until it returns.
C3_PermitLimits ==
    /\ InboundHolders <= INCOMING_PERMITS
    /\ OutboundHolders <= OUTGOING_PERMITS
    /\ incomingAvail + InboundHolders = INCOMING_PERMITS
    /\ outgoingAvail + OutboundHolders = OUTGOING_PERMITS
    /\ \A c \in conns :
         /\ inTask[c].permit <=> inTask[c].pc \in {"awaiting", "trust", "prepare", "streaming"}
         /\ outTask[c].permit <=> outTask[c].pc \in {"waitAck", "streaming"}

\* both limiters are exhausted and the observed transfer holds a permit of each
C3_BothLimitsReached ==
    /\ InboundHolders = INCOMING_PERMITS
    /\ OutboundHolders = OUTGOING_PERMITS
    /\ \E c \in conns : inTask[c].permit /\ outTask[c].permit

\* C4: when handle_incoming has read a valid header while all 5 inbound
\* permits are held, it writes ACK(0,0), emits on_reject(task_id, "System
\* Busy") and returns Ok, with no Incoming event, no entry put into the
\* pending map and no file created.
C4_BusyRejects ==
    [][ \A c \in conns :
          (/\ inTask[c].pc = "idle" /\ inTask'[c].pc # "idle"
           /\ wire[c].hdr.kind = "valid"
           /\ InboundHolders = INCOMING_PERMITS)
          => /\ inTask'[c].pc = "done" /\ inTask'[c].result = "Ok"
             /\ inTask'[c].acks = << << 0, 0 >> >>
             /\ wire'[c].ack = Append(wire[c].ack, << 0, 0 >>)
             /\ inTask'[c].events =
                  << Event("Rejected", wire[c].hdr.filename, "System Busy") >>
             /\ ~inTask'[c].permit
             /\ UNCHANGED << pending, chan, fs, data, incomingAvail, whitelist >> ]_vars

\* the observed transfer was turned away while 5 other transfers held the permits
C4_TurnedAwayWhenFull ==
    \E c \in conns :
      /\ otherIncoming = INCOMING_PERMITS
      /\ inTask[c].pc = "done"
      /\ Emitted(inTask[c].events, "Rejected") # {}
      /\ inTask[c].acks = << << 0, 0 >> >>

----------------------------------------------------------------------------
(* Properties of the acceptance *)

\* handle_incoming of c leaves its header read with a permit
ReadsHeader(c) ==
    /\ inTask[c].pc = "idle" /\ inTask'[c].pc # "idle"
    /\ wire[c].hdr.kind = "valid"
    /\ InboundHolders < INCOMING_PERMITS
\* handle_incoming of c writes one more ACK, with this status byte
WritesAck(c, status) ==
    /\ Len(inTask'[c].acks) = Len(inTask[c].acks) + 1
    /\ inTask'[c].acks[Len(inTask'[c].acks)][1] = status
\* one more response is queued for c, and it is resp
Delivered(c, resp) ==
    /\ Len(chan'[c]) = Len(chan[c]) + 1
    /\ chan'[c][Len(chan'[c])] = resp

\* C5: a transfer whose sender_name is in the whitelist when its header is
\* read is accepted with no Incoming event and no pending entry, and the only
\* ACK it writes is ACK(1,0); a transfer whose sender_name is not in the
\* whitelist is made to wait, and writes ACK(1,0) only after an Accept that a
\* resolve_request(task_id, true) call delivered to it.
C5_WhitelistGatesAccept ==
    [][ \A c \in conns :
          LET t == inTask[c]
              u == inTask'[c]
          IN  /\ (ReadsHeader(c) /\ wire[c].hdr.sender_name \in whitelist)
                   => /\ u.pc = "prepare" /\ u.is_trusted
                      /\ Emitted(u.events, "Incoming") = {}
                      /\ UNCHANGED << pending, chan >>
              /\ (ReadsHeader(c) /\ wire[c].hdr.sender_name \notin whitelist)
                   => /\ u.pc = "awaiting" /\ ~u.is_trusted
                      /\ u.acks = << >>
              /\ u.is_trusted
                   => /\ Emitted(u.events, "Incoming") = {}
                      /\ \A k \in DOMAIN pending' : pending'[k] # c
                      /\ \A i \in DOMAIN u.acks : u.acks[i] = << 1, 0 >>
              /\ WritesAck(c, 1) => (t.is_trusted \/ t.decision = "Accept")
              /\ (t.decision # "Accept" /\ u.decision = "Accept")
                   => (chan[c] # << >> /\ Head(chan[c]) = "Accept")
              /\ Delivered(c, "Accept") => resolve_request(t.hdr.filename, TRUE) ]_vars

\* a whitelisted sender's transfer and an accepted one both got ACK(1,0)
C5_TrustedAndAcceptedAcked ==
    \E c, k \in conns :
      /\ inTask[c].is_trusted /\ inTask[c].acks = << << 1, 0 >> >>
      /\ Emitted(inTask[c].events, "Incoming") = {}
      /\ ~inTask[k].is_trusted /\ inTask[k].decision = "Accept"
      /\ inTask[k].acks = << << 1, 0 >> >>

\* the wait of c for the user ends with a Decline, or with no decision at all
EndsWaitUnaccepted(c) ==
    /\ inTask[c].pc = "awaiting" /\ inTask'[c].pc # "awaiting"
    /\ (chan[c] = << >> \/ Head(chan[c]) = "Decline")
\* handle_incoming of c turned the transfer down after the wait
Unaccepted(c) == inTask[c].decision \in {"Decline", "Timeout"}
\* the receiver's part of a rejection
RejectsAtReceiver(c) ==
    /\ WritesAck(c, 0)
    /\ inTask'[c].events =
         Append(inTask[c].events, Event("Rejected", inTask[c].hdr.filename, "User Rejected"))
    /\ inTask'[c].pc = "done" /\ inTask'[c].result = "Ok"
    /\ inTask'[c].path = NoPath
    /\ UNCHANGED << fs, data, whitelist >>
\* the sender's part of a rejection, with the reasons it may give
RejectedAtSender(c, reasons) ==
    /\ wire[c].body = << >>
    /\ outTask[c].pc \in {"waitAck", "done"}
    /\ outTask[c].events = << >> <=> outTask[c].pc = "waitAck"
    /\ outTask[c].pc = "done"
         => \E r \in reasons : outTask[c].events = << Event("Rejected", req[c].task_id, r) >>

\* C6 as stated: after a Decline or a decision timeout the receiver writes
\* ACK(0,0), emits on_reject, creates no file and leaves the whitelist alone,
\* and the sender writes no body byte and emits on_reject(task_id, "Receiver
\* Rejected").
C6_SenderSeesReceiverRejected ==
    [][ \A c \in conns :
          /\ EndsWaitUnaccepted(c) => RejectsAtReceiver(c)
          /\ Unaccepted(c)' => RejectedAtSender(c, {"Receiver Rejected"})' ]_vars

\* C6: after a Decline or a decision timeout the receiver writes ACK(0,0),
\* emits on_reject, creates no file and leaves the whitelist alone, and the
\* sender writes no body byte and emits nothing but one on_reject(task_id,
\* reason), where reason is "Receiver Rejected" when it read the ACK(0,0) and
\* "Timeout" when its own wait for the ACK ended first.
C6_RejectedBothSides ==
    [][ \A c \in conns :
          /\ EndsWaitUnaccepted(c) => RejectsAtReceiver(c)
          /\ Unaccepted(c)' => RejectedAtSender(c, {"Receiver Rejected", "Timeout"})'
          /\ (Unaccepted(c) /\ outTask[c].pc = "waitAck" /\ outTask'[c].pc = "done")
               => outTask'[c].events =
                    << Event("Rejected", req[c].task_id,
                             IF wire'[c].ack = Tail(wire[c].ack)
                               THEN "Receiver Rejected" ELSE "Timeout") >> ]_vars

\* both ways a rejection ends at the sender: one transfer was declined and its
\* sender read the ACK(0,0), the other timed out at both ends
C6_DeclinedAndTimedOut ==
    \E c, k \in conns :
      /\ inTask[c].decision = "Decline" /\ inTask[c].pc = "done"
      /\ outTask[c].events = << Event("Rejected", req[c].task_id, "Receiver Rejected") >>
      /\ inTask[k].decision = "Timeout" /\ inTask[k].pc = "done"
      /\ outTask[k].events = << Event("Rejected", req[k].task_id, "Timeout") >>

\* C7: a resolve_request(task_id, x) call with a pending entry for task_id
\* removes that entry and queues exactly one response, x, for the transfer
\* that registered it, which is still waiting; it changes nothing else, so a
\* second call finds no entry.  A call with no entry for task_id changes no
\* state and queues no response.
C7_ResolveOnce ==
    [][ \A task_id \in FileNames, accept \in BOOLEAN :
          resolve_request(task_id, accept) =>
            IF task_id \in DOMAIN pending
              THEN LET k == pending[task_id] IN
                   /\ task_id \notin DOMAIN pending'
                   /\ \A id \in DOMAIN pending \ {task_id} :
                        id \in DOMAIN pending' /\ pending'[id] = pending[id]
                   /\ inTask[k].pc = "awaiting" /\ inTask[k].hdr.filename = task_id
                   /\ Delivered(k, IF accept THEN "Accept" ELSE "Decline")
                   /\ \A c \in conns \ {k} : chan'[c] = chan[c]
                   /\ UNCHANGED << req, outTask, outgoingAvail, otherSends, wire, inTask,
                                   incomingAvail, otherIncoming, whitelist, fs, data, dev_mode,
                                   restVars >>
              ELSE UNCHANGED vars ]_vars

\* a response is queued for a waiting transfer and its entry is gone
C7_ResolvedAndRemoved ==
    \E c \in conns :
      /\ inTask[c].pc = "awaiting"
      /\ chan[c] # << >>
      /\ inTask[c].hdr.filename \notin DOMAIN pending

\* C8: every inbound transfer that waits for a decision not yet given has
\* its own entry in the pending map, so that a resolve_request call can reach
\* it; this for any concurrent transfers, two with the same filename included.
C8_OwnPendingEntry ==
    \A c \in conns :
      (inTask[c].pc = "awaiting" /\ chan[c] = << >>)
      => /\ inTask[c].hdr.filename \in DOMAIN pending
         /\ pending[inTask[c].hdr.filename] = c

----------------------------------------------------------------------------
(* Properties of the outbound transfer *)

\* C9: handle_sending writes body bytes only after it read an ACK whose
\* status byte is 1; when it returns from the wait for the ACK instead
\* (status 0, timeout, read error) it has emitted on_reject and nothing else
\* and has written no body byte.
C9_StreamsOnlyOnStatusOne ==
    [][ \A c \in conns :
          /\ wire'[c].body # wire[c].body
               => (outTask[c].ack # << >> /\ outTask[c].ack[1] = 1)
          /\ (outTask[c].pc = "waitAck" /\ outTask'[c].pc = "done")
               => /\ wire'[c].body = << >>
                  /\ Len(outTask'[c].events) = 1
                  /\ outTask'[c].events[1].ev = "Rejected" ]_vars

\* the terminal events among events
TerminalEvents(events) ==
    { i \in DOMAIN events : events[i].ev \in {"Completed", "Rejected", "Error"} }

\* C10: once the task of a send_file call has ended, the host got exactly
\* one terminal event (Completed, Rejected or Error), every event carries
\* the task_id of the call, and an Error never comes with a Completed.
C10_OneTerminalEvent ==
    \A c \in conns :
      outTask[c].pc = "done"
      => /\ Cardinality(TerminalEvents(outTask[c].events)) = 1
         /\ \A i \in DOMAIN outTask[c].events :
              outTask[c].events[i].task_id = req[c].task_id

----------------------------------------------------------------------------
(* The receiver against any peer: the sending end of the connection is not  *)
(* this program and may write any header, any number of body bytes, and     *)
(* close or drop the stream at any point.                                   *)

\* what a remote peer may send where a header is due
PeerHeaders ==
    { FileHeader(f, MaxFileLen, s) : f \in FileNames, s \in SenderNames }
      \cup { NoHeader, PartialHeader, MalformedHeader }

\* the peer connects and writes h
PeerHeader(c, h) ==
    /\ ~wire[c].est
    /\ wire' = [ wire EXCEPT ![c].est = TRUE, ![c].hdr = h ]
    /\ UNCHANGED << outVars, inVars, hostVars >>

\* the peer writes one more body byte, up to one byte beyond the filesize
PeerByte(c) ==
    /\ wire[c].est /\ wire[c].hdr.kind = "valid" /\ wire[c].up = "open"
    /\ Len(wire[c].body) <= MaxFileLen
    /\ wire' = [ wire EXCEPT ![c].body = Append(@, 10 * c + Len(@) + 1) ]
    /\ UNCHANGED << outVars, inVars, hostVars >>

\* the peer shuts its end down cleanly ("fin") or drops the connection
PeerClose(c, how) ==
    /\ wire[c].est /\ wire[c].up = "open"
    /\ wire' = [ wire EXCEPT ![c].up = how ]
    /\ UNCHANGED << outVars, inVars, hostVars >>

InitReceiver ==
    /\ outTask = [ c \in Observed |-> NewOutTask ]
    /\ outgoingAvail = OUTGOING_PERMITS
    /\ otherSends = 0
    /\ wire = [ c \in Observed |-> NewWire ]
    /\ inTask = [ c \in Observed |-> NewInTask ]
    /\ incomingAvail = INCOMING_PERMITS
    /\ otherIncoming = 0
    /\ pending = << >>
    /\ chan = [ c \in Observed |-> << >> ]
    /\ whitelist = InitialWhitelist
    /\ fs = << >>
    /\ data = << >>
    /\ dev_mode \in BOOLEAN
    /\ InitSecurity
    /\ InitDiscovery
    /\ InitPool
    /\ InitAux
    /\ req = [ c \in Observed |-> SendRequest(c, "file", "notes.txt", MaxFileLen, "alice") ]

NextReceiver ==
    \/ Inbound
    \/ \E c \in conns, h \in PeerHeaders : PeerHeader(c, h)
    \/ \E c \in conns : PeerByte(c)
    \/ \E c \in conns, how \in {"fin", "dropped"} : PeerClose(c, how)

SpecReceiver == InitReceiver /\ [][NextReceiver]_vars

\* C11: when handle_incoming fails (malformed header, I/O error or timeout
\* in the body), the host gets an on_error event that carries the task_id of
\* that transfer, whether dev_mode is on or off.
C11_InboundFailureReported ==
    [][ \A c \in conns :
          (Returns(c) /\ inTask'[c].result = "Err")
          => \E i \in Emitted(inTask'[c].events, "Error") :
               inTask'[c].hdr.kind = "valid"
                 => inTask'[c].events[i].task_id = inTask'[c].hdr.filename ]_vars

(***************************************************************************)
(* Trust on first use: SecurityManager and TofuVerifier (security.rs) and  *)
(* the server names the TLS and QUIC transports hand to the verifier.      *)
(***************************************************************************)

\* the certificates a peer may present
Certs == { "certA", "certB" }

\* the addresses the engine dials: two peers
Targets == { "10.0.0.7", "10.0.0.9" }

\* the server name of every QUIC connect
PROTOCOL_SERVER_NAME == "droptea.p2p"

\* ServerName values: a DNS name or an IP address
DnsName(n) == [ kind |-> "dns", name |-> n ]
IpAddress(n) == [ kind |-> "ip", name |-> n ]
ServerNames == { IpAddress(t) : t \in Targets } \cup { DnsName(PROTOCOL_SERVER_NAME) }

\* hex of the BLAKE3 hash of the certificate: one digest per certificate
fingerprint_of(cert) == CASE cert = "certA" -> "9f3a" [] cert = "certB" -> "c41e"

\* the peer id check_cert derives from the server name (a name carries no
\* surrounding white space, so trimming leaves it as it is)
clean_peer_id(server_name) ==
    CASE server_name.kind = "dns" -> server_name.name
      [] server_name.kind = "ip" -> server_name.name
      [] OTHER -> "unknown"

\* Option<String>: the empty set is None
get_known_fingerprint(hosts, peer_id) ==
    IF peer_id \in DOMAIN hosts THEN { hosts[peer_id] } ELSE { }

\* a save that writes the file although the stored fingerprint is already equal
\* and skips the insert
save_known_host_disk_only(peer_id, fingerprint, write_ok) ==
    /\ known_hosts' = known_hosts
    /\ hosts_file' = MapPut(hosts_file, peer_id, fingerprint)

\* SecurityManager::save_known_host under the write lock: nothing to do when the
\* stored fingerprint is equal; otherwise insert and write the whole store to
\* known_hosts.json, a failed write being logged only
save_known_host(peer_id, fingerprint, write_ok) ==
    IF get_known_fingerprint(known_hosts, peer_id) = { fingerprint }
    THEN UNCHANGED << known_hosts, hosts_file >>
    ELSE /\ known_hosts' = MapPut(known_hosts, peer_id, fingerprint)
         /\ hosts_file' = IF write_ok THEN known_hosts' ELSE hosts_file

\* a verifier that trusts whatever it is shown, whatever the callback answers
check_cert_outcome_trusting(known, fingerprint, callback, answer) ==
    IF known = { fingerprint } THEN "Ok" ELSE "Accept"

\* the outcome of check_cert: "Accept" stands for saving and returning Ok, any
\* other value is the message of the error returned
check_cert_outcome(known, fingerprint, callback, answer) ==
    IF known = { fingerprint } THEN "Ok"
    ELSE IF known # { }
    THEN IF callback
         THEN CASE answer = "Accept" -> "Accept"
                [] answer = "Reject" -> "Certificate rejected by user"
                [] OTHER -> "Callback failed"
         ELSE "Fingerprint mismatch (MITM protection)"
    ELSE IF callback
         THEN CASE answer = "Accept" -> "Accept"
                [] answer = "Reject" -> "Rejected by user"
                [] OTHER -> "Callback failed"
         ELSE "Accept"

\* TofuVerifier::check_cert for a certificate presented under server_name;
\* answer is what ask_verify_certificate returns if it is called, write_ok
\* whether the write of known_hosts.json succeeds if it is attempted
check_cert(via, target, server_name, cert, callback, answer, write_ok) ==
    LET fingerprint == fingerprint_of(cert)
        peer_id == clean_peer_id(server_name)
        known == get_known_fingerprint(known_hosts, peer_id)
        outcome == check_cert_outcome(known, fingerprint, callback, answer)
    IN  /\ IF outcome = "Accept"
           THEN save_known_host(peer_id, fingerprint, write_ok)
           ELSE UNCHANGED << known_hosts, hosts_file >>
        /\ tofu_last' = [ via |-> via, target |-> target, peer_id |-> peer_id,
                          fingerprint |-> fingerprint, known |-> known,
                          callback |-> callback,
                          asked |-> callback /\ known # { fingerprint },
                          answer |-> IF callback /\ known # { fingerprint }
                                     THEN answer ELSE "",
                          result |-> IF outcome = "Accept" THEN "Ok" ELSE outcome ]
        /\ UNCHANGED << tofu_callback, handshakes, transferVars, discVars, poolVars >>

\* rustls calls verify_server_cert of a verifier built by the application
verify_server_cert(server_name, cert, answer, write_ok) ==
    check_cert("verifier", server_name.name, server_name, cert, tofu_callback,
               answer, write_ok)

\* ServerName::try_from accepts a DNS name or an IP address literal
ParsesAsServerName(ip) == ip \in { "10.0.0.7", "10.0.0.9" }

\* the server name of a TLS connect: the dialled address, or the protocol name
\* when the address is no server name
tcp_server_name(ip) ==
    IF ParsesAsServerName(ip) THEN IpAddress(ip) ELSE DnsName(PROTOCOL_SERVER_NAME)

\* a QUIC connect that names the dialled address
quic_server_name_by_address(addr) == IpAddress(addr)

\* the server name of a QUIC connect
quic_server_name(addr) == DnsName(PROTOCOL_SERVER_NAME)

\* TcpTransport::connect: the handshake runs the verifier of build_tls_configs,
\* which has no callback
tcp_connect(ip, cert, write_ok) ==
    check_cert("tcp", ip, tcp_server_name(ip), cert, FALSE, "", write_ok)

\* QuicTransport::get_or_connect dialling addr: the handshake runs the verifier
\* of QuicTransport::new, which has no callback
quic_connect(addr, cert, write_ok) ==
    check_cert("quic", addr, quic_server_name(addr), cert, FALSE, "", write_ok)

\* a direct call of SecurityManager::save_known_host
SaveKnownHost(peer_id, fingerprint, write_ok) ==
    /\ save_known_host(peer_id, fingerprint, write_ok)
    /\ UNCHANGED << tofu_last, tofu_callback, handshakes, transferVars, discVars, poolVars >>

CallbackAnswers == { "Accept", "Reject", "Err" }
Fingerprints == { fingerprint_of(cert) : cert \in Certs }

\* a SecurityManager just constructed: its store is what known_hosts.json holds;
\* no transfer is running
InitTofu ==
    /\ \E P \in SUBSET { "10.0.0.7" } :
           known_hosts \in [ P -> Fingerprints ]
    /\ hosts_file = known_hosts
    /\ tofu_callback \in BOOLEAN
    /\ tofu_last = NoCheck
    /\ handshakes = << >>
    /\ InitDiscovery
    /\ InitPool
    /\ InitAux
    /\ req = << >>
    /\ outTask = << >>
    /\ inTask = << >>
    /\ wire = << >>
    /\ outgoingAvail = OUTGOING_PERMITS
    /\ incomingAvail = INCOMING_PERMITS
    /\ otherSends = 0
    /\ otherIncoming = 0
    /\ pending = << >>
    /\ chan = << >>
    /\ whitelist = InitialWhitelist
    /\ fs = << >>
    /\ data = << >>
    /\ dev_mode = FALSE

NextTofu ==
    \/ \E server_name \in ServerNames, cert \in Certs, answer \in CallbackAnswers,
          write_ok \in BOOLEAN :
           verify_server_cert(server_name, cert, answer, write_ok)
    \/ \E ip \in Targets, cert \in Certs, write_ok \in BOOLEAN :
           tcp_connect(ip, cert, write_ok)
    \/ \E addr \in Targets, cert \in Certs, write_ok \in BOOLEAN :
           quic_connect(addr, cert, write_ok)
    \/ \E peer_id \in Targets, fingerprint \in Fingerprints, write_ok \in BOOLEAN :
           SaveKnownHost(peer_id, fingerprint, write_ok)

SpecTofu == InitTofu /\ [][NextTofu]_vars

\* the store, in memory, holds fingerprint for peer_id after the step, and so
\* does known_hosts.json when the write went through
PinnedAfter(peer_id, fingerprint, write_ok) ==
    /\ get_known_fingerprint(known_hosts', peer_id) = { fingerprint }
    /\ write_ok => get_known_fingerprint(hosts_file', peer_id) = { fingerprint }

\* C12: when check_cert runs for a peer without a known-hosts record, a verifier
\* without callback saves the fingerprint for the peer and accepts; a verifier
\* with a callback asks it, saves and accepts only on the answer Accept, and on
\* Reject or a callback error fails and creates no record for the peer.
C12_FirstUse ==
    [][ \A server_name \in ServerNames, cert \in Certs,
           answer \in CallbackAnswers, write_ok \in BOOLEAN :
          LET peer_id == clean_peer_id(server_name)
              fingerprint == fingerprint_of(cert)
          IN  ( /\ get_known_fingerprint(known_hosts, peer_id) = { }
                /\ tofu_last'.via = "verifier"
                /\ tofu_last'.peer_id = peer_id
                /\ verify_server_cert(server_name, cert, answer, write_ok) )
              => IF ~tofu_callback
                 THEN /\ ~tofu_last'.asked
                      /\ tofu_last'.result = "Ok"
                      /\ PinnedAfter(peer_id, fingerprint, write_ok)
                 ELSE /\ tofu_last'.asked
                      /\ IF answer = "Accept"
                         THEN /\ tofu_last'.result = "Ok"
                              /\ PinnedAfter(peer_id, fingerprint, write_ok)
                         ELSE /\ tofu_last'.result # "Ok"
                              /\ get_known_fingerprint(known_hosts', peer_id) = { }
                              /\ get_known_fingerprint(hosts_file', peer_id) = { }
      ]_vars

\* a first use was refused by the callback and left no record, while another
\* peer's first use was saved
C12_FirstUseRefused ==
    /\ tofu_last.via = "verifier"
    /\ tofu_last.known = { }
    /\ tofu_last.asked
    /\ tofu_last.answer = "Reject"
    /\ tofu_last.result = "Rejected by user"
    /\ tofu_last.peer_id \notin DOMAIN known_hosts
    /\ DOMAIN hosts_file # { }

\* a certificate presented for peer_id whose fingerprint differs from the stored one
Mismatch(peer_id, fingerprint) ==
    /\ get_known_fingerprint(known_hosts, peer_id) # { }
    /\ get_known_fingerprint(known_hosts, peer_id) # { fingerprint }

\* what a step that verified a changed certificate must have done
MismatchArbitrated(peer_id, fingerprint) ==
    /\ tofu_last'.asked
    /\ IF tofu_last'.answer = "Accept"
       THEN /\ tofu_last'.result = "Ok"
            /\ get_known_fingerprint(known_hosts', peer_id) = { fingerprint }
       ELSE /\ tofu_last'.result \in { "Fingerprint mismatch (MITM protection)",
                                      "Certificate rejected by user",
                                      "Callback failed" }
            /\ known_hosts' = known_hosts

\* C13: whenever a verification, by an application's verifier or by a connect of
\* the TLS or QUIC transport, meets a fingerprint that differs from the stored
\* one, the callback is asked; on Accept the record is overwritten and the
\* verification succeeds, otherwise it fails and the record stays.
C13_MismatchAsksCallback ==
    [][ \A cert \in Certs, write_ok \in BOOLEAN :
          /\ \A server_name \in ServerNames, answer \in CallbackAnswers :
               ( /\ Mismatch(clean_peer_id(server_name), fingerprint_of(cert))
                 /\ verify_server_cert(server_name, cert, answer, write_ok) )
               => ( tofu_callback =>
                      MismatchArbitrated(clean_peer_id(server_name), fingerprint_of(cert)) )
          /\ \A ip \in Targets :
               /\ ( /\ Mismatch(clean_peer_id(tcp_server_name(ip)), fingerprint_of(cert))
                    /\ tcp_connect(ip, cert, write_ok) )
                  => MismatchArbitrated(clean_peer_id(tcp_server_name(ip)),
                                        fingerprint_of(cert))
               /\ ( /\ Mismatch(clean_peer_id(quic_server_name(ip)), fingerprint_of(cert))
                    /\ quic_connect(ip, cert, write_ok) )
                  => MismatchArbitrated(clean_peer_id(quic_server_name(ip)),
                                        fingerprint_of(cert))
      ]_vars

\* C14: a connect of the TLS or QUIC transport consults and writes the record
\* keyed by the peer it dials, so the first connect to a peer without a record
\* is accepted and pins the presented fingerprint under that peer's own key.
C14_PinnedPerDialledPeer ==
    [][ \A target \in Targets, cert \in Certs, write_ok \in BOOLEAN :
          ( tcp_connect(target, cert, write_ok) \/ quic_connect(target, cert, write_ok) )
          => /\ tofu_last'.peer_id = target
             /\ get_known_fingerprint(known_hosts, target) = { }
                => /\ tofu_last'.result = "Ok"
                   /\ get_known_fingerprint(known_hosts', target) = { fingerprint_of(cert) }
      ]_vars

\* C15: after any sequence of save_known_host calls on one SecurityManager the
\* store in known_hosts.json equals the store in memory, so a fingerprint that
\* get_known_fingerprint returns for a peer is the one on disk.
C15_DiskEqualsMemory == hosts_file = known_hosts

(* Two senders nobody trusted yet: trusted_peers.json is empty, "alice" sends *)
(* notes.txt and "bob" sends notes.pdf, the host may accept both.             *)
InitTrust ==
    /\ outTask = [ c \in Transfers |-> NewOutTask ]
    /\ outgoingAvail = OUTGOING_PERMITS
    /\ otherSends = 0
    /\ wire = [ c \in Transfers |-> NewWire ]
    /\ inTask = [ c \in Transfers |-> NewInTask ]
    /\ incomingAvail = INCOMING_PERMITS
    /\ otherIncoming = 0
    /\ pending = << >>
    /\ chan = [ c \in Transfers |-> << >> ]
    /\ whitelist = { }
    /\ fs = << >>
    /\ data = << >>
    /\ dev_mode = FALSE
    /\ InitSecurity
    /\ InitDiscovery
    /\ InitPool
    /\ InitAux
    /\ \E len \in 1..MaxFileLen :
         req = [ c \in Transfers |->
                   IF c = 1 THEN SendRequest(c, "file", "notes.txt", len, "alice")
                            ELSE SendRequest(c, "file", "notes.pdf", len, "bob") ]

SpecTrust == InitTrust /\ [][Next]_vars

\* the handler of c has returned from security::add_trust
add_trust_completed(c) ==
    /\ inTask[c].decision = "Accept"
    /\ inTask[c].pc \notin { "awaiting", "trust" }

\* C16: once a handler's add_trust(S) has completed, S is in the whitelist that
\* is_trusted loads, in every later state, also when transfers from different
\* senders are accepted concurrently.
C16_TrustNeverLost ==
    \A c \in conns : add_trust_completed(c) => is_trusted(inTask[c].hdr.sender_name)

(* A download directory that earlier transfers of notes.txt have filled: any *)
(* of the three names get_unique_path can produce for it may be there.       *)
EarlierDownloads == { "notes.txt", "notes_1.txt", "notes_1700000000000000001.txt" }

InitDir ==
    /\ outTask = [ c \in Observed |-> NewOutTask ]
    /\ outgoingAvail = OUTGOING_PERMITS
    /\ otherSends = 0
    /\ wire = [ c \in Observed |-> NewWire ]
    /\ inTask = [ c \in Observed |-> NewInTask ]
    /\ incomingAvail = INCOMING_PERMITS
    /\ otherIncoming = 0
    /\ pending = << >>
    /\ chan = [ c \in Observed |-> << >> ]
    /\ whitelist = InitialWhitelist
    /\ \E present \in SUBSET EarlierDownloads :
         /\ fs = [ p \in present |->
                     CASE p = "notes.txt" -> 101 [] p = "notes_1.txt" -> 102 [] OTHER -> 103 ]
         /\ data = [ ino \in { fs[p] : p \in present } |-> << ino >> ]
    /\ dev_mode = FALSE
    /\ InitSecurity
    /\ InitDiscovery
    /\ InitPool
    /\ InitAux
    /\ req = [ c \in Observed |-> SendRequest(c, "file", "notes.txt", MaxFileLen, "alice") ]

SpecDir == InitDir /\ [][NextReceiver]_vars

\* C17: the path get_unique_path returns to handle_incoming did not exist in the
\* download directory at the moment of the call, whatever the directory holds.
C17_UniquePathIsFresh ==
    [][ \A c \in conns :
          ( /\ inTask[c].pc \in { "trust", "prepare" }
            /\ inTask'[c].path # NoPath )
          => PathString(inTask'[c].path) \notin DOMAIN fs
      ]_vars

(***************************************************************************)
(* Discovery (discovery.rs): the peer table, the event loop that applies   *)
(* the listeners' events to it, and the health check with its probe tasks. *)
(* Time is read in seconds since a peer was last seen and advances by the  *)
(* sleep of the health check loop.                                         *)
(***************************************************************************)

\* spawned probes of one peer that may be unfinished when the next round starts
MaxProbes == 1

HEALTH_CHECK_INTERVAL_SEC == 5
PEER_STALE_THRESHOLD_SEC == 15

\* the ids the listeners report, the address texts of mDNS and the BLE addresses
PeerIds == { "b", "c" }
IpStrings == { "10.0.0.7", "[fe80::7]" }
BleMacs == { "AA:BB" }

\* ip.parse::<IpAddr>(): Some for an address literal, None for a bracketed one
parse_ip(ip) == IF ip \in { "10.0.0.7", "10.0.0.8" } THEN { ip } ELSE { }

\* TransportType::to_string
transport_to_string(transport) ==
    CASE transport = "Lan" -> "LAN"
      [] transport = "BleOnly" -> "BLE"
      [] transport = "Hybrid" -> "HYBRID"

\* the calls of the host's callback
on_peer_found(id, ip, port, ssid, transport) ==
    [ fn |-> "on_peer_found", id |-> id, ip |-> ip, port |-> port, ssid |-> ssid,
      transport |-> transport ]
on_peer_lost(id) ==
    [ fn |-> "on_peer_lost", id |-> id, ip |-> "", port |-> 0, ssid |-> { },
      transport |-> "" ]

\* the PeerInfo the event loop inserts for a peer first heard of over mDNS
LanPeer(parsed_ip, port) ==
    [ ip |-> parsed_ip, port |-> port, ssid |-> { }, ble_mac |-> { }, transport |-> "Lan",
      last_seen |-> 0, missed_pings |-> 0 ]

\* an insertion for a BLE peer that leaves out the address it was heard from
BlePeer_without_mac(mac, ssid) ==
    [ ip |-> { }, port |-> 0, ssid |-> ssid, ble_mac |-> { }, transport |-> "BleOnly",
      last_seen |-> 0, missed_pings |-> 0 ]

\* the PeerInfo the event loop inserts for a peer first heard of over BLE
BlePeer(mac, ssid) ==
    [ ip |-> { }, port |-> 0, ssid |-> ssid, ble_mac |-> { mac }, transport |-> "BleOnly",
      last_seen |-> 0, missed_pings |-> 0 ]

\* a fallback to BLE that forgets to clear the address
degrade_keeping_ip(peer) == [ peer EXCEPT !.transport = "BleOnly" ]

\* a fallback to BLE that also forgets the port
degrade_clearing_port(peer) == [ peer EXCEPT !.transport = "BleOnly", !.ip = { }, !.port = 0 ]

\* the fallback of a Hybrid peer to BLE
degrade(peer) == [ peer EXCEPT !.transport = "BleOnly", !.ip = { } ]

\* what the host shows after the callback calls of one step, in their order
RECURSIVE host_after(_, _)
host_after(shown, calls) ==
    IF calls = << >> THEN shown
    ELSE host_after(IF Head(calls).fn = "on_peer_found"
                    THEN shown \cup { Head(calls).id }
                    ELSE shown \ { Head(calls).id }, Tail(calls))

\* event loop, DiscoveryInternalEvent::MdnsFound
MdnsFound(id, ip, port) ==
    /\ parse_ip(ip) # { }
    /\ IF id \in DOMAIN known_peers
       THEN LET peer == [ known_peers[id] EXCEPT
                            !.ip = parse_ip(ip), !.port = port, !.last_seen = 0,
                            !.missed_pings = 0,
                            !.transport = IF @ = "BleOnly" THEN "Hybrid" ELSE "Lan" ]
            IN  /\ known_peers' = [ known_peers EXCEPT ![id] = peer ]
                /\ peer_calls' = << on_peer_found(id, ip, port, peer.ssid,
                                                  transport_to_string(peer.transport)) >>
       ELSE /\ known_peers' = MapPut(known_peers, id, LanPeer(parse_ip(ip), port))
            /\ peer_calls' = << on_peer_found(id, ip, port, { }, "LAN") >>
    /\ host_peers' = host_after(host_peers, peer_calls')
    /\ UNCHANGED << probes, probe_removing, peers_lost, transferVars, secVars, poolVars >>

\* event loop, DiscoveryInternalEvent::BleFound
BleFound(id, mac, ssid) ==
    /\ IF id \in DOMAIN known_peers
       THEN /\ known_peers' =
                 [ known_peers EXCEPT ![id] =
                     [ @ EXCEPT !.ssid = ssid, !.ble_mac = { mac }, !.last_seen = 0,
                                !.transport = IF @ = "Lan" THEN "Hybrid" ELSE @ ] ]
            /\ peer_calls' = << >>
       ELSE /\ known_peers' = MapPut(known_peers, id, BlePeer(mac, ssid))
            /\ peer_calls' = << on_peer_found(id, "", 0, ssid, "BLE") >>
    /\ host_peers' = host_after(host_peers, peer_calls')
    /\ UNCHANGED << probes, probe_removing, peers_lost, transferVars, secVars, poolVars >>

\* event loop, DiscoveryInternalEvent::MdnsLost
MdnsLost(id) ==
    /\ IF id \notin DOMAIN known_peers
       THEN /\ peer_calls' = << >>
            /\ UNCHANGED << known_peers, peers_lost >>
       ELSE IF known_peers[id].transport = "Hybrid"
       THEN /\ known_peers' = [ known_peers EXCEPT ![id] = degrade(@) ]
            /\ peer_calls' = << >>
            /\ UNCHANGED peers_lost
       ELSE /\ known_peers' = MapDel(known_peers, id)
            /\ peer_calls' = << on_peer_lost(id) >>
            /\ peers_lost' = peers_lost \cup { id }
    /\ host_peers' = host_after(host_peers, peer_calls')
    /\ UNCHANGED << probes, probe_removing, transferVars, secVars, poolVars >>

\* the peers the health check probes: reachable by address and not seen lately
Suspects(peers) ==
    { id \in DOMAIN peers : /\ peers[id].transport # "BleOnly"
                            /\ peers[id].ip # { }
                            /\ peers[id].last_seen > PEER_STALE_THRESHOLD_SEC }

\* one round of run_health_check: sleep, collect the suspects, spawn a probe
\* task for each
run_health_check ==
    LET slept == [ id \in DOMAIN known_peers |->
                     [ known_peers[id] EXCEPT !.last_seen =
                         IF @ > PEER_STALE_THRESHOLD_SEC
                         THEN @ ELSE @ + HEALTH_CHECK_INTERVAL_SEC ] ]
    IN  /\ \A id \in Suspects(slept) : probes[id] < MaxProbes
        /\ known_peers' = slept
        /\ probes' = [ id \in DOMAIN probes |->
                         IF id \in Suspects(slept) THEN probes[id] + 1 ELSE probes[id] ]
        /\ peer_calls' = << >>
        /\ host_peers' = host_after(host_peers, peer_calls')
        /\ UNCHANGED << probe_removing, peers_lost, transferVars, secVars, poolVars >>

\* a spawned probe task has its answer and takes the entry (get_mut): is_alive
\* is whether the peer answered the ping. For a Lan peer at its third miss the
\* task calls on_peer_lost and lets go of the entry; its remove is a step of
\* its own, probe_remove
probe_done(id, is_alive) ==
    /\ probes[id] > probe_removing[id]
    /\ IF id \notin DOMAIN known_peers
       THEN /\ probes' = [ probes EXCEPT ![id] = @ - 1 ]
            /\ peer_calls' = << >>
            /\ UNCHANGED << known_peers, peers_lost, probe_removing >>
       ELSE LET peer == known_peers[id]
                missed == [ peer EXCEPT !.missed_pings = @ + 1 ]
            IN  IF is_alive
                THEN /\ known_peers' = [ known_peers EXCEPT ![id] =
                                           [ peer EXCEPT !.last_seen = 0, !.missed_pings = 0 ] ]
                     /\ probes' = [ probes EXCEPT ![id] = @ - 1 ]
                     /\ peer_calls' = << >>
                     /\ UNCHANGED << peers_lost, probe_removing >>
                ELSE IF missed.missed_pings >= 3 /\ peer.transport = "Hybrid"
                THEN /\ known_peers' = [ known_peers EXCEPT ![id] = degrade(missed) ]
                     /\ probes' = [ probes EXCEPT ![id] = @ - 1 ]
                     /\ peer_calls' = << >>
                     /\ UNCHANGED << peers_lost, probe_removing >>
                ELSE IF missed.missed_pings >= 3 /\ peer.transport = "Lan"
                THEN /\ known_peers' = [ known_peers EXCEPT ![id] = missed ]
                     /\ peer_calls' = << on_peer_lost(id) >>
                     /\ peers_lost' = peers_lost \cup { id }
                     /\ probe_removing' = [ probe_removing EXCEPT ![id] = @ + 1 ]
                     /\ UNCHANGED probes
                ELSE /\ known_peers' = [ known_peers EXCEPT ![id] = missed ]
                     /\ probes' = [ probes EXCEPT ![id] = @ - 1 ]
                     /\ peer_calls' = << >>
                     /\ UNCHANGED << peers_lost, probe_removing >>
    /\ host_peers' = host_after(host_peers, peer_calls')
    /\ UNCHANGED << transferVars, secVars, poolVars >>

\* the probe task's peers_ref.remove(&id) after it let go of the entry
probe_remove(id) ==
    /\ probe_removing[id] > 0
    /\ known_peers' = MapDel(known_peers, id)
    /\ probes' = [ probes EXCEPT ![id] = @ - 1 ]
    /\ probe_removing' = [ probe_removing EXCEPT ![id] = @ - 1 ]
    /\ peer_calls' = << >>
    /\ host_peers' = host_after(host_peers, peer_calls')
    /\ UNCHANGED << peers_lost, transferVars, secVars, poolVars >>

\* DiscoveryEngine::new: an empty table, no probe spawned; no transfer runs
InitPeers ==
    /\ known_peers = << >>
    /\ probes = [ id \in PeerIds |-> 0 ]
    /\ peers_lost = { }
    /\ peer_calls = << >>
    /\ probe_removing = [ id \in PeerIds |-> 0 ]
    /\ host_peers = DOMAIN known_peers
    /\ InitSecurity
    /\ InitPool
    /\ InitAux
    /\ req = << >>
    /\ outTask = << >>
    /\ inTask = << >>
    /\ wire = << >>
    /\ outgoingAvail = OUTGOING_PERMITS
    /\ incomingAvail = INCOMING_PERMITS
    /\ otherSends = 0
    /\ otherIncoming = 0
    /\ pending = << >>
    /\ chan = << >>
    /\ whitelist = InitialWhitelist
    /\ fs = << >>
    /\ data = << >>
    /\ dev_mode = FALSE

NextPeers ==
    \/ \E id \in PeerIds, ip \in IpStrings : MdnsFound(id, ip, 9000)
    \/ \E id \in PeerIds, mac \in BleMacs : BleFound(id, mac, { })
    \/ \E id \in PeerIds : MdnsLost(id)
    \/ run_health_check
    \/ \E id \in PeerIds, is_alive \in BOOLEAN : probe_done(id, is_alive)
    \/ \E id \in PeerIds : probe_remove(id)

SpecPeers == InitPeers /\ [][NextPeers]_vars

\* C18: every peer in the table is BleOnly exactly if it has a BLE address and
\* no IP address, has both if it is Hybrid and has an IP address if it is Lan.
C18_TransportMatchesAddresses ==
    \A id \in DOMAIN known_peers :
        LET p == known_peers[id]
        IN  /\ p.transport = "BleOnly" <=> ( p.ip = { } /\ p.ble_mac # { } )
            /\ p.transport = "Hybrid" => ( p.ip # { } /\ p.ble_mac # { } )
            /\ p.transport = "Lan" => p.ip # { }

\* a Hybrid peer fell back to BLE by its third missed ping while the other peer,
\* still Hybrid, has a probe under way
C18_DegradedBesideProbed ==
    \E id, other \in DOMAIN known_peers :
        /\ known_peers[id].transport = "BleOnly"
        /\ known_peers[id].missed_pings = 3
        /\ known_peers[other].transport = "Hybrid"
        /\ probes[other] > 0

(* Peers whose TCP listener has stopped: no probe is answered and mDNS is    *)
(* silent, while BLE advertisements keep arriving. The health check loop     *)
(* wakes every interval, a spawned probe task finishes (its timeout is 2 s), *)
(* and the BLE listener keeps delivering.                                    *)
HybridPeer == [ ip |-> { "10.0.0.7" }, port |-> 9000, ssid |-> { }, ble_mac |-> { "AA:BB" },
                transport |-> "Hybrid", last_seen |-> 0, missed_pings |-> 0 ]

InitDegrade ==
    /\ \E other \in { HybridPeer, LanPeer({ "10.0.0.7" }, 9000) } :
         known_peers = [ id \in PeerIds |-> IF id = "b" THEN HybridPeer ELSE other ]
    /\ probes = [ id \in PeerIds |-> 0 ]
    /\ peers_lost = { }
    /\ peer_calls = << >>
    /\ probe_removing = [ id \in PeerIds |-> 0 ]
    /\ host_peers = DOMAIN known_peers
    /\ InitSecurity
    /\ InitPool
    /\ InitAux
    /\ req = << >>
    /\ outTask = << >>
    /\ inTask = << >>
    /\ wire = << >>
    /\ outgoingAvail = OUTGOING_PERMITS
    /\ incomingAvail = INCOMING_PERMITS
    /\ otherSends = 0
    /\ otherIncoming = 0
    /\ pending = << >>
    /\ chan = << >>
    /\ whitelist = InitialWhitelist
    /\ fs = << >>
    /\ data = << >>
    /\ dev_mode = FALSE

NextDegrade ==
    \/ \E id \in PeerIds, mac \in BleMacs : BleFound(id, mac, { })
    \/ run_health_check
    \/ \E id \in PeerIds : probe_done(id, FALSE)
    \/ \E id \in PeerIds : probe_remove(id)

SpecDegrade ==
    /\ InitDegrade
    /\ [][NextDegrade]_vars
    /\ WF_vars(run_health_check)
    /\ \A id \in PeerIds : WF_vars(probe_done(id, FALSE))
    /\ \A id \in PeerIds : WF_vars(probe_remove(id))
    /\ \A id \in PeerIds : WF_vars(\E mac \in BleMacs : BleFound(id, mac, { }))

\* C19: a Hybrid peer whose listener has stopped and that mDNS no longer
\* refreshes is eventually probed and, after its third failed probe, is BleOnly
\* with its ip cleared and no on_peer_lost, while BLE advertisements keep arriving.
C19_HybridDegrades ==
    \A id \in PeerIds :
        ( id \in DOMAIN known_peers /\ known_peers[id].transport = "Hybrid" )
        ~> ( /\ id \in DOMAIN known_peers
             /\ known_peers[id].transport = "BleOnly"
             /\ known_peers[id].ip = { }
             /\ id \notin peers_lost )

(***************************************************************************)
(* The connection pool of the QUIC transport (transports/quic.rs):         *)
(* concurrent QuicTransport::connect calls, each through get_or_connect    *)
(* with its read-locked fast path, its dial outside the lock and its       *)
(* write-locked insertion. The Connection a call dials bears the call's    *)
(* number.                                                                 *)
(***************************************************************************)

QuicCallers == { 1, 2, 3 }
QuicAddrs == { "10.0.0.7:9000", "10.0.0.9:9000" }

NewQuicCall == [ pc |-> "idle", addr |-> "", own |-> 0, conn |-> 0, stream |-> 0 ]

\* a pool lookup that never finds anything
live_existing_none(pool, closed, addr) == { }

\* conns.get(&addr) with close_reason().is_none(): the live pooled Connection
live_existing(pool, closed, addr) ==
    IF addr \in DOMAIN pool /\ pool[addr] \notin closed THEN { pool[addr] } ELSE { }

\* QuicTransport::connect(ip, port) parses the address and enters get_or_connect
connect_start(k, addr) ==
    /\ quic_call[k].pc = "idle"
    /\ quic_call' = [ quic_call EXCEPT ![k].pc = "fast_wait", ![k].addr = addr ]
    /\ UNCHANGED << quic_pool, quic_lock, quic_closed, quic_accept, transferVars, secVars,
                    discVars >>

\* step 1: self.connections.read().await is granted
pool_read_lock(k) ==
    /\ quic_call[k].pc = "fast_wait"
    /\ quic_lock.writer = 0
    /\ quic_lock' = [ quic_lock EXCEPT !.readers = @ \cup { k } ]
    /\ quic_call' = [ quic_call EXCEPT ![k].pc = "fast" ]
    /\ UNCHANGED << quic_pool, quic_closed, quic_accept, transferVars, secVars,
                    discVars >>

\* step 1: the fast path returns the live pooled Connection, or the block ends
\* and the dial begins; either way the read guard is dropped
pool_fast_path(k) ==
    /\ quic_call[k].pc = "fast"
    /\ quic_lock' = [ quic_lock EXCEPT !.readers = @ \ { k } ]
    /\ LET found == live_existing(quic_pool, quic_closed, quic_call[k].addr)
       IN  quic_call' = [ quic_call EXCEPT ![k] =
             IF found # { }
             THEN [ @ EXCEPT !.pc = "open", !.conn = CHOOSE x \in found : TRUE ]
             ELSE [ @ EXCEPT !.pc = "dialing" ] ]
    /\ UNCHANGED << quic_pool, quic_closed, quic_accept, transferVars, secVars,
                    discVars >>

\* step 2: endpoint.connect(addr, PROTOCOL_SERVER_NAME)?.await? ends
pool_dial(k, ok) ==
    /\ quic_call[k].pc = "dialing"
    /\ quic_call' = [ quic_call EXCEPT ![k] =
         IF ok THEN [ @ EXCEPT !.pc = "slow_wait", !.own = k ]
               ELSE [ @ EXCEPT !.pc = "failed" ] ]
    /\ UNCHANGED << quic_pool, quic_lock, quic_closed, quic_accept, transferVars, secVars,
                    discVars >>

\* step 3: self.connections.write().await is granted
pool_write_lock(k) ==
    /\ quic_call[k].pc = "slow_wait"
    /\ quic_lock.writer = 0
    /\ quic_lock.readers = { }
    /\ quic_lock' = [ quic_lock EXCEPT !.writer = k ]
    /\ quic_call' = [ quic_call EXCEPT ![k].pc = "slow" ]
    /\ UNCHANGED << quic_pool, quic_closed, quic_accept, transferVars, secVars,
                    discVars >>

\* step 3: the double check prefers a live Connection somebody else inserted,
\* otherwise the own one is inserted; the write guard is dropped
pool_slow_path(k) ==
    /\ quic_call[k].pc = "slow"
    /\ quic_lock' = [ quic_lock EXCEPT !.writer = 0 ]
    /\ LET found == live_existing(quic_pool, quic_closed, quic_call[k].addr)
       IN  IF found # { }
           THEN /\ quic_call' = [ quic_call EXCEPT ![k].pc = "open",
                                    ![k].conn = CHOOSE x \in found : TRUE ]
                /\ UNCHANGED quic_pool
           ELSE /\ quic_call' = [ quic_call EXCEPT ![k].pc = "open",
                                    ![k].conn = quic_call[k].own ]
                /\ quic_pool' = MapPut(quic_pool, quic_call[k].addr, quic_call[k].own)
    /\ UNCHANGED << quic_closed, quic_accept, transferVars, secVars,
                    discVars >>

\* connection.open_bi().await? on the Connection get_or_connect returned
connect_open_bi(k) ==
    /\ quic_call[k].pc = "open"
    /\ quic_call' = [ quic_call EXCEPT ![k] =
         IF quic_call[k].conn \in quic_closed THEN [ @ EXCEPT !.pc = "failed" ]
         ELSE [ @ EXCEPT !.pc = "done", !.stream = quic_call[k].conn ] ]
    /\ UNCHANGED << quic_pool, quic_lock, quic_closed, quic_accept, transferVars, secVars,
                    discVars >>

\* a dialled Connection is closed, by the peer or by an idle timeout
connection_closes(conn) ==
    /\ \E k \in DOMAIN quic_call : quic_call[k].own = conn
    /\ conn \notin quic_closed
    /\ quic_closed' = quic_closed \cup { conn }
    /\ UNCHANGED << quic_pool, quic_lock, quic_call, quic_accept, transferVars, secVars,
                    discVars >>

\* QuicTransport::new: an empty pool; the calls to come; nothing else runs
InitQuic ==
    /\ quic_pool = << >>
    /\ quic_lock = [ readers |-> { }, writer |-> 0 ]
    /\ quic_call = [ k \in QuicCallers |-> NewQuicCall ]
    /\ quic_closed = { }
    /\ quic_accept = [ awaiting |-> 0, taken |-> { }, served |-> { } ]
    /\ InitSecurity
    /\ InitDiscovery
    /\ InitAux
    /\ req = << >>
    /\ outTask = << >>
    /\ inTask = << >>
    /\ wire = << >>
    /\ outgoingAvail = OUTGOING_PERMITS
    /\ incomingAvail = INCOMING_PERMITS
    /\ otherSends = 0
    /\ otherIncoming = 0
    /\ pending = << >>
    /\ chan = << >>
    /\ whitelist = InitialWhitelist
    /\ fs = << >>
    /\ data = << >>
    /\ dev_mode = FALSE

NextQuic ==
    \/ \E k \in QuicCallers, addr \in QuicAddrs : connect_start(k, addr)
    \/ \E k \in QuicCallers : pool_read_lock(k)
    \/ \E k \in QuicCallers : pool_fast_path(k)
    \/ \E k \in QuicCallers, ok \in BOOLEAN : pool_dial(k, ok)
    \/ \E k \in QuicCallers : pool_write_lock(k)
    \/ \E k \in QuicCallers : pool_slow_path(k)
    \/ \E k \in QuicCallers : connect_open_bi(k)
    \/ \E conn \in QuicCallers : connection_closes(conn)

SpecQuic == InitQuic /\ [][NextQuic]_vars

\* C20: while no Connection has closed, every completed connect call has its
\* stream on the Connection the pool holds for its address, a call that dialled
\* but found another's Connection inserted left its own out of the pool, and a
\* call whose dial is in progress holds neither the read nor the write lock.
C20_OnePooledConnection ==
    /\ quic_closed = { } =>
         \A k \in DOMAIN quic_call :
             LET call == quic_call[k]
             IN  /\ call.pc = "done" =>
                      /\ call.addr \in DOMAIN quic_pool
                      /\ call.stream = quic_pool[call.addr]
                 /\ ( call.pc \in { "open", "done" } /\ call.own # 0 /\ call.conn # call.own )
                      => \A addr \in DOMAIN quic_pool : quic_pool[addr] # call.own
    /\ \A k \in DOMAIN quic_call :
           quic_call[k].pc = "dialing" => ( k \notin quic_lock.readers /\ quic_lock.writer # k )

\* three calls to one address have completed: two of them dialled, one of these
\* discarded its Connection, and all three streams are on the pooled one
C20_ThreeStreamsOnePooled ==
    /\ quic_closed = { }
    /\ \A k \in DOMAIN quic_call : quic_call[k].pc = "done" /\ quic_call[k].addr = "10.0.0.7:9000"
    /\ DOMAIN quic_pool = { "10.0.0.7:9000" }
    /\ \A k \in DOMAIN quic_call : quic_call[k].stream = quic_pool["10.0.0.7:9000"]
    /\ \E k \in DOMAIN quic_call : quic_call[k].own # 0 /\ quic_call[k].own # quic_call[k].conn
    /\ \E k \in DOMAIN quic_call : quic_call[k].own = 0

(***************************************************************************)
(* The accepting end of the QUIC transport: QuicTransport::accept, called  *)
(* in a loop by start_service, takes the next incoming Connection from the *)
(* endpoint and returns the first stream the peer opens on it. A stream    *)
(* bears the number of the connect call that opened it.                    *)
(***************************************************************************)

\* the Connection the dialling end has let go of: its call returned another one
DroppedByDialler(conn) ==
    \E k \in DOMAIN quic_call : /\ quic_call[k].own = conn
                                /\ quic_call[k].conn # conn
                                /\ quic_call[k].pc \in { "open", "done", "failed" }

\* the streams opened on conn that no accept has returned yet
UnservedStreams(conn) ==
    { k \in DOMAIN quic_call : /\ quic_call[k].pc = "done"
                               /\ quic_call[k].stream = conn
                               /\ k \notin quic_accept.served }

\* accept: self.endpoint.accept().await and connecting.await? yield a Connection
\* that has completed its handshake
endpoint_accept(conn) ==
    /\ quic_accept.awaiting = 0
    /\ \E k \in DOMAIN quic_call : quic_call[k].own = conn
    /\ conn \notin quic_accept.taken
    /\ quic_accept' = [ quic_accept EXCEPT !.awaiting = conn, !.taken = @ \cup { conn } ]
    /\ UNCHANGED << quic_pool, quic_lock, quic_call, quic_closed, transferVars, secVars,
                    discVars >>

\* accept: connection.accept_bi().await? returns a stream of that Connection,
\* which accept hands to start_service; the Connection handle is dropped
accept_bi(k) ==
    /\ quic_accept.awaiting # 0
    /\ k \in UnservedStreams(quic_accept.awaiting)
    /\ quic_accept' = [ quic_accept EXCEPT !.awaiting = 0, !.served = @ \cup { k } ]
    /\ UNCHANGED << quic_pool, quic_lock, quic_call, quic_closed, transferVars, secVars,
                    discVars >>

\* accept: connection.accept_bi().await? fails on a Connection that was closed
\* or let go of; start_service sleeps and calls accept again
accept_bi_err ==
    /\ quic_accept.awaiting # 0
    /\ quic_accept.awaiting \in quic_closed \/ DroppedByDialler(quic_accept.awaiting)
    /\ quic_accept' = [ quic_accept EXCEPT !.awaiting = 0 ]
    /\ UNCHANGED << quic_pool, quic_lock, quic_call, quic_closed, transferVars, secVars,
                    discVars >>

(* Transfers to one peer over QUIC whose Connections stay live: every call   *)
(* and the accept loop keep running.                                        *)
NextMux ==
    \/ \E k \in QuicCallers : connect_start(k, "10.0.0.7:9000")
    \/ \E k \in QuicCallers : pool_read_lock(k)
    \/ \E k \in QuicCallers : pool_fast_path(k)
    \/ \E k \in QuicCallers, ok \in BOOLEAN : pool_dial(k, ok)
    \/ \E k \in QuicCallers : pool_write_lock(k)
    \/ \E k \in QuicCallers : pool_slow_path(k)
    \/ \E k \in QuicCallers : connect_open_bi(k)
    \/ \E conn \in QuicCallers : endpoint_accept(conn)
    \/ \E k \in QuicCallers : accept_bi(k)
    \/ accept_bi_err

SpecMux == InitQuic /\ [][NextMux]_vars /\ WF_vars(NextMux)

\* C21: every stream a connect call opened on the pooled Connection is
\* eventually returned by the peer's accept.
C21_EveryStreamAccepted ==
    \A k \in QuicCallers : ( quic_call[k].pc = "done" ) ~> ( k \in quic_accept.served )

(***************************************************************************)
(* copy_pipeline (transfer.rs): a producer task reads the reader into      *)
(* recycled buffers and sends them through the data channel; the caller    *)
(* receives them, writes them to the writer, reports progress and sends    *)
(* the buffer back. Sizes are counted in units of 512 KiB, time in units   *)
(* of 100 ms; the reader's bytes are numbered so that each is recognised.  *)
(***************************************************************************)

\* the longest reader content and declared total, and the buffers in circulation
MaxSourceLen == 4
MaxBuffers == 2

\* PIPELINE_BUFFER_SIZE (4 MiB) and the 1 MiB progress step, in units of 512 KiB
PIPELINE_BUFFER_UNITS == 8
PROGRESS_STEP_UNITS == 2

\* vec![0u8; n]
Zeros(n) == [ i \in 1..n |-> 0 ]

\* buf.resize(new_len, 0): cut, or filled up with zeros behind what it holds
resize(buf, new_len) ==
    [ i \in 1..new_len |-> IF i <= Len(buf) THEN buf[i] ELSE 0 ]

\* reader.read(&mut buf) that returned n: the next n bytes at the front of buf
read_into(buf, src, pos, n) ==
    [ i \in 1..Len(buf) |-> IF i <= n THEN src[pos + i] ELSE buf[i] ]

\* a truncate that leaves the buffer at its full length
truncate_none(buf, n) == buf

\* buf.truncate(n)
truncate(buf, n) == SubSeq(buf, 1, n)

\* a pipeline set up with one buffer more than the channels hold
NewPipe_one_more(src, total) ==
    [ src |-> src, pos |-> 0, total |-> total,
      recycle |-> [ i \in 1..(MaxBuffers + 1) |-> Zeros(PIPELINE_BUFFER_UNITS) ],
      data |-> << >>, producer |-> "run", consumer |-> "run",
      written |-> << >>, uploaded |-> 0, last_rep |-> 0, since |-> 0,
      elapsed |-> 0, progress |-> << >>, writer_shutdown |-> FALSE ]

NewPipe(src, total) ==
    [ src |-> src, pos |-> 0, total |-> total,
      recycle |-> [ i \in 1..MaxBuffers |-> Zeros(PIPELINE_BUFFER_UNITS) ],
      data |-> << >>, producer |-> "run", consumer |-> "run",
      written |-> << >>, uploaded |-> 0, last_rep |-> 0, since |-> 0,
      elapsed |-> 0, progress |-> << >>, writer_shutdown |-> FALSE ]

\* one turn of the producer loop that reads n > 0 bytes and sends the chunk
producer_chunk(n) ==
    /\ pipe.producer = "run"
    /\ pipe.consumer = "run"
    /\ pipe.recycle # << >>
    /\ Len(pipe.data) < MaxBuffers
    /\ n \in 1..(Len(pipe.src) - pipe.pos)
    /\ n <= PIPELINE_BUFFER_UNITS
    /\ LET buf == resize(Head(pipe.recycle), PIPELINE_BUFFER_UNITS)
           chunk == truncate(read_into(buf, pipe.src, pipe.pos, n), n)
       IN  pipe' = [ pipe EXCEPT !.recycle = Tail(@), !.pos = @ + n,
                                 !.data = Append(@, [ ok |-> TRUE, chunk |-> chunk ]) ]
    /\ UNCHANGED << coreVars, secVars, discVars, poolVars, node, scan, browse, listener >>

\* the last turn of the producer loop: the read returns 0 at the end of the
\* reader, or fails or times out and the error is sent, or the caller has gone
producer_end(how) ==
    /\ pipe.producer = "run"
    /\ CASE how = "eof" -> /\ pipe.consumer = "run"
                           /\ pipe.recycle # << >>
                           /\ pipe.pos = Len(pipe.src)
                           /\ pipe' = [ pipe EXCEPT !.producer = "done", !.recycle = Tail(@) ]
         [] how = "error" -> /\ pipe.consumer = "run"
                             /\ pipe.recycle # << >>
                             /\ Len(pipe.data) < MaxBuffers
                             /\ pipe' = [ pipe EXCEPT !.producer = "done", !.recycle = Tail(@),
                                     !.data = Append(@, [ ok |-> FALSE, chunk |-> << >> ]) ]
         [] how = "closed" -> /\ pipe.consumer # "run"
                              /\ pipe' = [ pipe EXCEPT !.producer = "done" ]
    /\ UNCHANGED << coreVars, secVars, discVars, poolVars, node, scan, browse, listener >>

\* one turn of the caller's loop on a chunk: write_all, count, report progress
\* if due, send the buffer back; passed is the time since the previous turn,
\* since and elapsed the time since last_time, counted up to "more than 100 ms"
consumer_chunk(passed) ==
    /\ pipe.consumer = "run"
    /\ pipe.data # << >>
    /\ Head(pipe.data).ok
    /\ LET chunk == Head(pipe.data).chunk
           uploaded == pipe.uploaded + Len(chunk)
           since == IF pipe.since + passed > 2 THEN 2 ELSE pipe.since + passed
           due == \/ ( uploaded - pipe.last_rep >= PROGRESS_STEP_UNITS /\ since > 1 )
                  \/ uploaded = pipe.total
       IN  pipe' = [ pipe EXCEPT !.data = Tail(@),
                                 !.written = @ \o chunk,
                                 !.uploaded = uploaded,
                                 !.progress = IF due THEN Append(@, << uploaded, pipe.total >>)
                                                     ELSE @,
                                 !.last_rep = IF due THEN uploaded ELSE @,
                                 !.since = IF due THEN 0 ELSE since,
                                 !.elapsed = since,
                                 !.recycle = Append(@, chunk) ]
    /\ UNCHANGED << coreVars, secVars, discVars, poolVars, node, scan, browse, listener >>

\* the caller's loop ends: the channel is closed and drained and copy_pipeline
\* returns Ok, or it received an error or its write failed and it returns Err
consumer_end(how) ==
    /\ pipe.consumer = "run"
    /\ CASE how = "ok" -> /\ pipe.data = << >>
                          /\ pipe.producer = "done"
                          /\ pipe' = [ pipe EXCEPT !.consumer = "ok" ]
         [] how = "recv_err" -> /\ pipe.data # << >>
                                /\ ~Head(pipe.data).ok
                                /\ pipe' = [ pipe EXCEPT !.consumer = "err", !.data = << >> ]
         [] how = "write_err" -> /\ pipe.data # << >>
                                 /\ Head(pipe.data).ok
                                 /\ pipe' = [ pipe EXCEPT !.consumer = "err", !.data = << >> ]
    /\ UNCHANGED << coreVars, secVars, discVars, poolVars, node, scan, browse, listener >>

\* an engine with no transfer, no peer, no pinned host and no pooled Connection
InitIdle ==
    /\ InitSecurity
    /\ InitDiscovery
    /\ InitPool
    /\ req = << >>
    /\ outTask = << >>
    /\ inTask = << >>
    /\ wire = << >>
    /\ outgoingAvail = OUTGOING_PERMITS
    /\ incomingAvail = INCOMING_PERMITS
    /\ otherSends = 0
    /\ otherIncoming = 0
    /\ pending = << >>
    /\ chan = << >>
    /\ whitelist = InitialWhitelist
    /\ fs = << >>
    /\ data = << >>
    /\ dev_mode = FALSE

\* copy_pipeline called on a reader holding any number of bytes with any total
InitPipe ==
    /\ \E len \in 0..MaxSourceLen, total \in 0..MaxSourceLen :
           pipe = NewPipe([ i \in 1..len |-> i ], total)
    /\ node = << >>
    /\ scan = << >>
    /\ browse = << >>
    /\ listener = << >>
    /\ InitIdle

NextPipe ==
    \/ \E n \in 1..MaxSourceLen : producer_chunk(n)
    \/ \E how \in { "eof", "error", "closed" } : producer_end(how)
    \/ \E passed \in 0..2 : consumer_chunk(passed)
    \/ \E how \in { "ok", "recv_err", "write_err" } : consumer_end(how)

SpecPipe == InitPipe /\ [][NextPipe]_vars

\* C22: what has been written to the writer is, byte for byte and in order, the
\* beginning of what the producer has read, and all of it once copy_pipeline
\* has returned Ok.
C22_WrittenIsWhatWasRead ==
    /\ Len(pipe.written) <= pipe.pos
    /\ pipe.written = SubSeq(pipe.src, 1, Len(pipe.written))
    /\ pipe.consumer = "ok" => pipe.written = SubSeq(pipe.src, 1, pipe.pos)

\* the whole reader went through in more short reads than there are buffers, so
\* that a buffer still holding an earlier chunk was read into again
C22_ShortReadsThroughRecycledBuffers ==
    /\ pipe.consumer = "ok"
    /\ Len(pipe.src) = MaxSourceLen
    /\ pipe.written = pipe.src
    /\ \E i \in 1..Len(pipe.recycle) : pipe.recycle[i] = << MaxSourceLen >>

\* the step is a turn of the caller's loop that called on_progress
Notified == Len(pipe'.progress) = Len(pipe.progress) + 1

\* C23: on_progress is called only when at least 1 MiB has been uploaded and
\* more than 100 ms have passed since the previous notification, or when the
\* count reaches total; and for a reader that holds exactly total bytes no
\* notification has current above total, and once copy_pipeline has returned Ok
\* the last notification is on_progress(total, total).
C23_ProgressNotifications ==
    [][ /\ Notified =>
              LET current == pipe'.uploaded
              IN  /\ pipe'.progress[Len(pipe'.progress)] = << current, pipe.total >>
                  /\ \/ current = pipe.total
                     \/ /\ current - pipe.last_rep >= PROGRESS_STEP_UNITS
                        /\ pipe'.elapsed > 1
        /\ pipe'.total = Len(pipe'.src) =>
              /\ \A i \in 1..Len(pipe'.progress) : pipe'.progress[i][1] <= pipe'.total
              /\ pipe'.consumer = "ok" =>
                    /\ pipe'.progress # << >>
                    /\ pipe'.progress[Len(pipe'.progress)] = << pipe'.total, pipe'.total >>
      ]_vars

(***************************************************************************)
(* The listening port and the announced port (engine.rs new_with_config    *)
(* and start_service, the three transports' constructors, discovery.rs     *)
(* spawn_mdns_listener).                                                   *)
(***************************************************************************)

TransportModes == { "Tcp", "Quic", "PlainTcp" }

\* DropTeaConfig.port and the port argument of start_service: 0 or a fixed port
ConfigPorts == { 0, 9000, 9001 }

\* the ports the OS hands out for a bind to port 0
EphemeralPorts == { 49152, 49153 }

\* TcpListener::bind / Endpoint::server on 0.0.0.0:port: the port asked for, or
\* for port 0 one the OS chooses
bind(port, os_port) == IF port = 0 THEN os_port ELSE port

\* TcpTransport::new and QuicTransport::new bind config.port, PlainTcpTransport::new
\* ignores its argument and binds port 0
transport_new(mode, port, os_port) ==
    IF mode = "PlainTcp" THEN bind(0, os_port) ELSE bind(port, os_port)

\* listener.local_addr().port()
local_port(n) == n.listening

\* DropTeaCore::new_with_config: the transport is constructed and bound; a fixed
\* port that is in use makes the constructor fail
new_with_config(mode, port, os_port, in_use) ==
    /\ node = << >>
    /\ in_use => mode # "PlainTcp" /\ port # 0
    /\ node' = IF in_use
               THEN [ mode |-> mode, port |-> port, state |-> "failed" ]
               ELSE [ mode |-> mode, port |-> port, state |-> "bound",
                      listening |-> transport_new(mode, port, os_port),
                      start_port |-> {}, server_started |-> {}, advertised |-> {} ]
    /\ UNCHANGED << coreVars, secVars, discVars, poolVars, pipe, scan, browse, listener >>

\* DropTeaCore::start_service(port): the accept loop and discovery are spawned
\* with the port the host passes; lib.rs passes the configured port, the C
\* interface whatever port its caller gives
start_service(host, port) ==
    /\ node # << >>
    /\ node.state = "bound"
    /\ host = "py" => port = node.port
    /\ node' = [ node EXCEPT !.state = "started", !.start_port = { port } ]
    /\ UNCHANGED << coreVars, secVars, discVars, poolVars, pipe, scan, browse, listener >>

\* the accept task's first statement: ServerStarted { port }
server_started ==
    /\ node # << >>
    /\ node.state = "started"
    /\ node.server_started = {}
    /\ node' = [ node EXCEPT !.server_started = node.start_port ]
    /\ UNCHANGED << coreVars, secVars, discVars, poolVars, pipe, scan, browse, listener >>

\* discovery.start -> spawn_mdns_listener: the service is registered with the
\* port start_service was given
mdns_register ==
    /\ node # << >>
    /\ node.state = "started"
    /\ node.advertised = {}
    /\ node' = [ node EXCEPT !.advertised = node.start_port ]
    /\ UNCHANGED << coreVars, secVars, discVars, poolVars, pipe, scan, browse, listener >>

InitNode ==
    /\ pipe = << >>
    /\ node = << >>
    /\ scan = << >>
    /\ browse = << >>
    /\ listener = << >>
    /\ InitIdle

NextNode ==
    \/ \E mode \in TransportModes, port \in ConfigPorts, os_port \in EphemeralPorts,
          in_use \in BOOLEAN : new_with_config(mode, port, os_port, in_use)
    \/ \E host \in { "py", "ffi" }, port \in ConfigPorts : start_service(host, port)
    \/ server_started
    \/ mdns_register

SpecNode == InitNode /\ [][NextNode]_vars

\* C24: in every transport mode the port registered in the node's mDNS record is
\* the port its transport listens on.
C24_AdvertisedPortIsListeningPort ==
    ( node # << >> /\ node.state = "started" ) =>
        \A p \in node.advertised : p = local_port(node)

(***************************************************************************)
(* The BLE scanner's filter (discovery.rs is_target_device). A string is a *)
(* sequence of characters, a Uuid its 32 hexadecimal digits.               *)
(***************************************************************************)

DROPTEA_NAME_PREFIX == << "D", "T", "-" >>
DROPTEA_UUID_PART == << "d", "7", "e", "a" >>

\* str::starts_with
starts_with(s, prefix) ==
    /\ Len(s) >= Len(prefix)
    /\ SubSeq(s, 1, Len(prefix)) = prefix

\* str::contains
contains(s, pat) ==
    \E i \in 1..(Len(s) - Len(pat) + 1) : SubSeq(s, i, i + Len(pat) - 1) = pat

HexDigits == << "0", "1", "2", "3", "4", "5", "6", "7", "8", "9", "a", "b", "c", "d", "e", "f" >>

\* Uuid's Display: lower-case digits in groups of 8-4-4-4-12 joined by hyphens
uuid_to_string(uuid) ==
    LET hex(from, to) == [ i \in 1..(to - from + 1) |-> HexDigits[uuid[from + i - 1] + 1] ]
    IN  hex(1, 8) \o << "-" >> \o hex(9, 12) \o << "-" >> \o hex(13, 16) \o << "-" >>
        \o hex(17, 20) \o << "-" >> \o hex(21, 32)

\* str::to_lowercase, on the characters that occur
to_lowercase(s) ==
    [ i \in 1..Len(s) |-> CASE s[i] = "A" -> "a" [] s[i] = "D" -> "d" [] s[i] = "E" -> "e"
                            [] s[i] = "T" -> "t" [] OTHER -> s[i] ]

\* a filter that looks at the name only
is_target_device_by_name(name, services) ==
    starts_with(name, DROPTEA_NAME_PREFIX)

is_target_device(name, services) ==
    IF starts_with(name, DROPTEA_NAME_PREFIX) THEN TRUE
    ELSE \E i \in 1..Len(services) :
             contains(to_lowercase(uuid_to_string(services[i])), DROPTEA_UUID_PART)

\* the 128-bit UUID of a 16-bit service number and the one of a 32-bit number
\* (xxxxxxxx-0000-1000-8000-00805f9b34fb), and one whose digits d7|ea fall on
\* the two sides of the first hyphen
BluetoothBase(first8) ==
    first8 \o << 0, 0, 0, 0, 1, 0, 0, 0, 8, 0, 0, 0, 0, 0, 8, 0, 5, 15, 9, 11, 3, 4, 15, 11 >>
Uuids ==
    { BluetoothBase(<< 0, 0, 0, 0, 13, 7, 14, 10 >>),
      BluetoothBase(<< 0, 0, 0, 0, 15, 15, 15, 15 >>),
      BluetoothBase(<< 13, 7, 14, 10, 0, 0, 0, 1 >>),
      << 0, 0, 0, 0, 0, 0, 13, 7, 14, 10, 0, 0, 1, 0, 0, 0, 8, 0, 0, 0,
         0, 0, 8, 0, 5, 15, 9, 11, 3, 4, 15, 11 >> }

LocalNames ==
    { << "D", "T", "-", "i" >>, << "D", "T", "-" >>, << "D", "T" >>, << "d", "t", "-", "i" >>,
      << "i", "D", "T", "-" >>, << "d", "7", "e", "a" >>, << >> }

ServiceLists ==
    { << >> } \cup { << u >> : u \in Uuids } \cup { << u, v >> : u \in Uuids, v \in Uuids }

Unknown == << "U", "n", "k", "n", "o", "w", "n" >>
IpadIphone == << "i", "P", "a", "d" >>

\* the peripheral's address as the adapter prints it
BleAddresses == { << "A", "A", ":", "B", "B" >> }

\* props.local_name.clone().unwrap_or("Unknown".to_string())
local_name_or_unknown(local_name) ==
    IF local_name = { } THEN Unknown ELSE CHOOSE name \in local_name : TRUE

\* display_name: "iPad/iPhone (DropTea)", written IpadIphone here, for a
\* peripheral without a name
ble_display_name(name) == IF name = Unknown THEN IpadIphone ELSE name

\* unique_id: format!("ble-{}", mac.replace(":", "")) or the name
ble_unique_id(name, display_name, mac) ==
    IF name = Unknown \/ name = display_name
    THEN << "b", "l", "e", "-" >> \o SelectSeq(mac, LAMBDA c : c # ":")
    ELSE name

\* the scanner's DeviceDiscovered / DeviceUpdated branch: the filter decides
\* whether the peripheral is reported, and a BleFound event is sent for a target
ble_device_discovered ==
    /\ scan # << >>
    /\ ~scan.seen
    /\ LET name == local_name_or_unknown(scan.local_name)
           target == is_target_device(name, scan.services)
           display_name == ble_display_name(name)
           event == [ id |-> ble_unique_id(name, display_name, scan.mac),
                      name |-> display_name, ssid |-> { }, mac |-> scan.mac ]
       IN  scan' = [ scan EXCEPT !.seen = TRUE, !.name = name, !.target = target,
                                 !.event = IF target THEN { event } ELSE { } ]
    /\ UNCHANGED << coreVars, secVars, discVars, poolVars, pipe, node, browse, listener >>

InitScan ==
    /\ \E local_name \in { { } } \cup { { name } : name \in LocalNames \cup { Unknown } },
          services \in ServiceLists, mac \in BleAddresses :
           scan = [ local_name |-> local_name, services |-> services, mac |-> mac,
                    seen |-> FALSE, name |-> << >>, target |-> FALSE, event |-> { } ]
    /\ pipe = << >>
    /\ node = << >>
    /\ browse = << >>
    /\ listener = << >>
    /\ InitIdle

NextScan == ble_device_discovered

SpecScan == InitScan /\ [][NextScan]_vars

\* the digits d, 7, e, a stand next to each other in the printed UUID
PrintedHasD7ea(uuid) ==
    LET str == uuid_to_string(uuid)
    IN  \E i \in 1..(Len(str) - 3) :
            str[i] = "d" /\ str[i + 1] = "7" /\ str[i + 2] = "e" /\ str[i + 3] = "a"

\* the name begins with the three characters D, T, -
NameHasPrefix(name) ==
    Len(name) >= 3 /\ name[1] = "D" /\ name[2] = "T" /\ name[3] = "-"

\* C25: a peripheral is taken as a target exactly when its name starts with
\* "DT-" or one of its service UUIDs, printed in lower case, contains "d7ea".
C25_TargetIffNameOrUuid ==
    ( scan # << >> /\ scan.seen ) =>
        ( scan.target <=> \/ NameHasPrefix(scan.name)
                          \/ \E i \in 1..Len(scan.services) : PrintedHasD7ea(scan.services[i]) )

\* a peripheral with a non-matching name was taken for its second service UUID
C25_TakenForSecondUuid ==
    /\ scan # << >>
    /\ scan.seen
    /\ scan.target
    /\ ~NameHasPrefix(scan.name)
    /\ Len(scan.services) = 2
    /\ ~PrintedHasD7ea(scan.services[1])

(***************************************************************************)
(* The event loop and the health check on one peer, with the events'       *)
(* fields varied: two addresses, two ports, an SSID or none, two BLE       *)
(* addresses.                                                              *)
(***************************************************************************)

EventIds == { "b" }
EventIps == { "10.0.0.7", "10.0.0.8" }
EventPorts == { 9000, 9001 }
EventSsids == { { }, { "cafe" } }
EventMacs == { "AA:BB", "CC:DD" }

NextEvents ==
    \/ \E id \in EventIds, ip \in EventIps, port \in EventPorts : MdnsFound(id, ip, port)
    \/ \E id \in EventIds, mac \in EventMacs, ssid \in EventSsids : BleFound(id, mac, ssid)
    \/ \E id \in EventIds : MdnsLost(id)
    \/ run_health_check
    \/ \E id \in EventIds, is_alive \in BOOLEAN : probe_done(id, is_alive)
    \/ \E id \in EventIds : probe_remove(id)

SpecEvents == InitPeers /\ [][NextEvents]_vars

\* the transport of a peer before an event, "absent" if it is not in the table
TransportBefore(id) ==
    IF id \in DOMAIN known_peers THEN known_peers[id].transport ELSE "absent"

\* C26: MdnsFound with a parseable ip inserts an absent peer as Lan, makes a
\* BleOnly peer Hybrid and leaves a Lan peer Lan and a Hybrid peer Hybrid; it
\* sets ip and port from the event, missed_pings to 0 and last_seen to now, and
\* calls on_peer_found with the resulting transport.
C26_MdnsFoundUpserts ==
    [][ \A id \in EventIds, ip \in EventIps, port \in EventPorts :
          MdnsFound(id, ip, port) =>
             /\ id \in DOMAIN known_peers'
             /\ known_peers'[id].transport =
                   CASE TransportBefore(id) = "absent" -> "Lan"
                     [] TransportBefore(id) = "BleOnly" -> "Hybrid"
                     [] TransportBefore(id) = "Lan" -> "Lan"
                     [] TransportBefore(id) = "Hybrid" -> "Hybrid"
             /\ known_peers'[id].ip = { ip }
             /\ known_peers'[id].port = port
             /\ known_peers'[id].missed_pings = 0
             /\ known_peers'[id].last_seen = 0
             /\ Len(peer_calls') = 1
             /\ peer_calls'[1].fn = "on_peer_found"
             /\ peer_calls'[1].id = id
             /\ peer_calls'[1].transport = transport_to_string(known_peers'[id].transport)
      ]_vars

\* C27: BleFound on a peer in the table attaches ble_mac and ssid and refreshes
\* last_seen, makes a Lan peer Hybrid, leaves Hybrid and BleOnly as they are and
\* leaves ip, port and missed_pings alone; on an absent id it inserts a BleOnly
\* peer with no ip and port 0 and calls on_peer_found with transport "BLE".
C27_BleFoundAttaches ==
    [][ \A id \in EventIds, mac \in EventMacs, ssid \in EventSsids :
          BleFound(id, mac, ssid) =>
             /\ id \in DOMAIN known_peers'
             /\ known_peers'[id].ble_mac = { mac }
             /\ known_peers'[id].ssid = ssid
             /\ known_peers'[id].last_seen = 0
             /\ IF id \in DOMAIN known_peers
                THEN /\ known_peers'[id].transport =
                           CASE TransportBefore(id) = "Lan" -> "Hybrid"
                             [] TransportBefore(id) = "Hybrid" -> "Hybrid"
                             [] TransportBefore(id) = "BleOnly" -> "BleOnly"
                     /\ known_peers'[id].ip = known_peers[id].ip
                     /\ known_peers'[id].port = known_peers[id].port
                     /\ known_peers'[id].missed_pings = known_peers[id].missed_pings
                ELSE /\ known_peers'[id].transport = "BleOnly"
                     /\ known_peers'[id].ip = { }
                     /\ known_peers'[id].port = 0
                     /\ Len(peer_calls') = 1
                     /\ peer_calls'[1].fn = "on_peer_found"
                     /\ peer_calls'[1].id = id
                     /\ peer_calls'[1].transport = "BLE"
      ]_vars

\* a Lan peer with two missed pings was heard over BLE with an SSID: it is
\* Hybrid, just seen, with its address, its port and its two missed pings
C27_LanMergedKeepingMisses ==
    \E id \in DOMAIN known_peers :
        /\ known_peers[id].transport = "Hybrid"
        /\ known_peers[id].ssid = { "cafe" }
        /\ known_peers[id].ble_mac = { "CC:DD" }
        /\ known_peers[id].ip = { "10.0.0.8" }
        /\ known_peers[id].port = 9001
        /\ known_peers[id].last_seen = 0
        /\ known_peers[id].missed_pings = 2
        /\ peer_calls = << >>

RemovedByHealthCheck(id) ==
    /\ probe_remove(id)
    /\ id \in DOMAIN known_peers

\* the step is a probe task's fallback of a peer to BLE
DegradedByHealthCheck(id) ==
    /\ probe_done(id, FALSE)
    /\ id \in DOMAIN known_peers
    /\ known_peers[id].transport # "BleOnly"
    /\ known_peers'[id].transport = "BleOnly"

\* C29: a probe that is answered sets missed_pings to 0 and refreshes
\* last_seen, one that is not adds 1 to missed_pings; a Hybrid peer falls back
\* to BleOnly with its ip cleared and no on_peer_lost, and a Lan peer is
\* removed with one on_peer_lost, only at 3 or more missed pings counted since
\* the peer's last MdnsFound or answered probe; a BleOnly peer gets no probe
\* and is neither degraded nor removed by the health check.
C29_ProbeBookkeeping ==
    [][ \A id \in EventIds :
          /\ ( probe_done(id, TRUE) /\ id \in DOMAIN known_peers ) =>
                /\ known_peers'[id].missed_pings = 0
                /\ known_peers'[id].last_seen = 0
          /\ ( probe_done(id, FALSE) /\ id \in DOMAIN known_peers ) =>
                known_peers'[id].missed_pings = known_peers[id].missed_pings + 1
          /\ DegradedByHealthCheck(id) =>
                /\ known_peers[id].transport = "Hybrid"
                /\ known_peers'[id].missed_pings >= 3
                /\ known_peers'[id].ip = { }
                /\ peer_calls' = << >>
          /\ probe_removing'[id] > probe_removing[id] =>
                /\ known_peers[id].transport = "Lan"
                /\ known_peers'[id].missed_pings >= 3
                /\ peer_calls' = << on_peer_lost(id) >>
          /\ RemovedByHealthCheck(id) =>
                /\ known_peers[id].transport = "Lan"
                /\ known_peers[id].missed_pings >= 3
          /\ probes'[id] > probes[id] =>
                known_peers'[id].transport # "BleOnly"
      ]_vars

\* C30: the health check gives up and removes only a Lan peer at its third
\* missed ping that has no BLE address recorded; a peer with a BLE address is
\* never removed by it.
C30_RemovedOnlyWithoutBleFallback ==
    [][ \A id \in EventIds :
          ( RemovedByHealthCheck(id) /\ peer_calls = << on_peer_lost(id) >> ) =>
             /\ known_peers[id].transport = "Lan"
             /\ known_peers[id].missed_pings >= 3
             /\ known_peers[id].ble_mac = { }
      ]_vars

\* C31: every peer in the table whose transport is BleOnly has port 0, whether
\* it was inserted by BleFound or fell back from Hybrid.
C31_BleOnlyHasPortZero ==
    \A id \in DOMAIN known_peers :
        known_peers[id].transport = "BleOnly" => known_peers[id].port = 0

(* The pool under fair scheduling: a connect call that has begun goes on,     *)
(* since each of its steps is a poll of a spawned task; whether the host      *)
(* calls connect again and whether a Connection closes is left open.          *)
connect_goes_on(k) ==
    \/ pool_read_lock(k)
    \/ pool_fast_path(k)
    \/ \E ok \in BOOLEAN : pool_dial(k, ok)
    \/ pool_write_lock(k)
    \/ pool_slow_path(k)
    \/ connect_open_bi(k)

SpecQuicFair ==
    /\ InitQuic
    /\ [][NextQuic]_vars
    /\ \A k \in QuicCallers : WF_vars(connect_goes_on(k))

\* the pool holds conn for some address
Pooled(conn) == \E addr \in DOMAIN quic_pool : quic_pool[addr] = conn

\* C32: a pooled Connection that has reported a close reason is eventually no
\* longer in the pool, whether or not connect is called again for its address.
C32_ClosedEntryLeavesPool ==
    \A conn \in QuicCallers :
        ( Pooled(conn) /\ conn \in quic_closed ) ~> ~Pooled(conn)

(* The pipeline under fair scheduling: the producer is a spawned task and the *)
(* caller is polled by its own task; a read or a write that does not complete *)
(* is ended by its 60 s timeout, which is the error outcome of the turn.      *)
producer_turn ==
    \/ \E n \in 1..MaxSourceLen : producer_chunk(n)
    \/ \E how \in { "eof", "error", "closed" } : producer_end(how)

consumer_turn ==
    \/ \E passed \in 0..2 : consumer_chunk(passed)
    \/ \E how \in { "ok", "recv_err", "write_err" } : consumer_end(how)

SpecPipeFair ==
    /\ InitPipe
    /\ [][NextPipe]_vars
    /\ WF_vars(producer_turn)
    /\ WF_vars(consumer_turn)

\* C33: the producer task and the caller both finish in every interleaving;
\* copy_pipeline returns Ok only when every chunk read has been written; the
\* writer is never shut down; and the data channel and the buffers with the
\* caller never hold more buffers than the channel capacity.
C33_PipelineTerminates ==
    /\ <>[]( pipe.producer = "done" /\ pipe.consumer \in { "ok", "err" } )
    /\ []( pipe.consumer = "ok" =>
              ( pipe.producer = "done" /\ pipe.data = << >> /\ Len(pipe.written) = pipe.pos ) )
    /\ []( ~pipe.writer_shutdown )
    /\ []( Len(pipe.data) <= MaxBuffers /\ Len(pipe.data) + Len(pipe.recycle) <= MaxBuffers )

\* the whole reader was copied in chunks of two units and the call returned Ok
\* after one notification; all buffers but the one the producer held at the
\* reader's end are back in the recycle channel
C33_FinishedWithBuffersBack ==
    /\ pipe.producer = "done"
    /\ pipe.consumer = "ok"
    /\ pipe.pos = MaxSourceLen
    /\ Len(pipe.progress) = 1
    /\ Len(pipe.recycle) = MaxBuffers - 1
    /\ \A i \in 1..Len(pipe.recycle) : Len(pipe.recycle[i]) = 2

\* C34: the id of a BleFound event the scanner sends is the peripheral's
\* advertised local name when it advertises one, and "ble-" followed by its
\* address without the colons only when it advertises none.
C34_BleFoundIdIsName ==
    ( scan # << >> /\ scan.seen ) =>
        \A event \in scan.event :
            IF scan.local_name # { }
            THEN \A name \in scan.local_name : event.id = name
            ELSE event.id = << "b", "l", "e", "-", "A", "A", "B", "B" >>

(***************************************************************************)
(* The mDNS browser (discovery.rs spawn_mdns_listener): what the node      *)
(* announces and which resolved services it passes on as MdnsFound.        *)
(* Addresses and names are character sequences.                            *)
(***************************************************************************)

\* "192.168.137.1", written 192.1 here
DEFAULT_HOTSPOT_GATEWAY == << "1", "9", "2", ".", "1" >>

\* get_local_ip(): the address of the default route, written 10.5 here, the
\* hotspot gateway itself on a machine that only runs the hotspot
MainIps == { << "1", "0", ".", "5" >>, DEFAULT_HOTSPOT_GATEWAY }

\* the node_id of this node
MyNodeId == << "n", "1" >>

\* the fullnames of resolved services: this node's, another node's, and another
\* node's whose id continues this node's
ServiceFullnames ==
    { << "D", "-", "n", "1", "." >>, << "D", "-", "n", "2", "." >>,
      << "D", "-", "n", "1", "0", "." >> }

\* the address lists of resolved services: IpAddr values, V4 or V6
IpV4(text) == [ v6 |-> FALSE, text |-> text ]
IpV6(text) == [ v6 |-> TRUE, text |-> text ]
AddressLists ==
    { << >>,
      << IpV4(<< "1", "0", ".", "7" >>) >>,
      << IpV4(<< "1", "0", ".", "5" >>) >>,
      << IpV4(DEFAULT_HOTSPOT_GATEWAY) >>,
      << IpV6(<< "f", "e", ":", ":", "7" >>) >>,
      << IpV6(<< "f", "e", ":", ":", "7" >>), IpV4(<< "1", "0", ".", "7" >>) >>,
      << IpV6(<< "f", "e", ":", ":", "7" >>), IpV4(DEFAULT_HOTSPOT_GATEWAY) >> }

\* target_ips: the addresses the node registers its service for; the hotspot
\* gateway is added only in the Windows build
target_ips(main_ip, windows) ==
    IF windows /\ main_ip # DEFAULT_HOTSPOT_GATEWAY
    THEN { main_ip, DEFAULT_HOTSPOT_GATEWAY } ELSE { main_ip }

\* best_ip: the first IPv4 address, else the first address, else None
best_ip(addresses) ==
    LET v4 == { i \in 1..Len(addresses) : ~addresses[i].v6 }
    IN  IF v4 # { } THEN { addresses[CHOOSE i \in v4 : \A j \in v4 : i <= j] }
        ELSE IF addresses # << >> THEN { addresses[1] }
        ELSE { }

\* ip_str: an IPv6 address is put in brackets
ip_to_str(ip) == IF ip.v6 THEN << "[" >> \o ip.text \o << "]" >> ELSE ip.text

\* ip_str.replace(&['[', ']'][..], "")
strip_brackets(s) == SelectSeq(s, LAMBDA c : c \notin { "[", "]" })

\* the two address tests of the browser
suppressed_by_ip(clean_ip_str, my_main_ip) ==
    \/ clean_ip_str = my_main_ip
    \/ clean_ip_str = DEFAULT_HOTSPOT_GATEWAY

\* ServiceEvent::ServiceResolved(info) in the browser thread
service_resolved ==
    /\ browse # << >>
    /\ ~browse.seen
    /\ LET chosen == best_ip(browse.addresses)
           sends == { [ id |-> browse.fullname, ip |-> ip_to_str(ip), port |-> browse.port ] :
                        ip \in { a \in chosen :
                                   ~suppressed_by_ip(strip_brackets(ip_to_str(a)),
                                                     browse.main_ip) } }
       IN  browse' = [ browse EXCEPT !.seen = TRUE,
                          !.sent = IF contains(browse.fullname, MyNodeId) THEN { } ELSE sends ]
    /\ UNCHANGED << coreVars, secVars, discVars, poolVars, pipe, node, scan, listener >>

\* the node has registered its service on a Windows or another build and the
\* browser has a resolved service before it
InitBrowse ==
    /\ \E windows \in BOOLEAN, main_ip \in MainIps, fullname \in ServiceFullnames,
          addresses \in AddressLists :
           browse = [ windows |-> windows, main_ip |-> main_ip,
                      announced |-> target_ips(main_ip, windows),
                      fullname |-> fullname, addresses |-> addresses, port |-> 9000,
                      seen |-> FALSE, sent |-> { } ]
    /\ pipe = << >>
    /\ node = << >>
    /\ scan = << >>
    /\ listener = << >>
    /\ InitIdle

NextBrowse == service_resolved

SpecBrowse == InitBrowse /\ [][NextBrowse]_vars

\* the address the browser chose for the service is one this node announced
ChosenIsAnnounced ==
    \E ip \in best_ip(browse.addresses) : ip.text \in browse.announced

\* C35: a resolved service is suppressed only if its fullname contains this
\* node's id or its chosen address is one this node announced; every other
\* resolved service with an address yields exactly one MdnsFound.
C35_SuppressedOnlyIfSelf ==
    ( browse # << >> /\ browse.seen /\ browse.addresses # << >> ) =>
        IF contains(browse.fullname, MyNodeId) \/ ChosenIsAnnounced
        THEN browse.sent = { }
        ELSE Cardinality(browse.sent) = 1

----------------------------------------------------------------------------
(* Inbound transfers in progress at the same time                          *)

\* the inbound transfer on c has opened its .part file and has not returned
InProgress(c) == inTask[c].pc = "streaming"

\* C36: two inbound transfers in progress at the same time never write to the
\* same .part file and never have the same final path to commit to, for the
\* same filename twice and for filenames that differ only in the extension.
C36_DistinctPartAndFinalPaths ==
    \A c \in conns, d \in conns :
        ( c # d /\ InProgress(c) /\ InProgress(d) ) =>
            /\ PathString(with_extension_part(inTask[c].path))
                   # PathString(with_extension_part(inTask[d].path))
            /\ PathString(inTask[c].path) # PathString(inTask[d].path)
            /\ inTask[c].ino # inTask[d].ino

(***************************************************************************)
(* Handshakes under way at the same time: each runs check_cert on a rustls *)
(* thread. get_known_fingerprint takes the read lock and lets it go, the   *)
(* callback is asked without any lock, save_known_host takes the write     *)
(* lock: a call is two steps, and other calls run between them.            *)
(***************************************************************************)

HandshakeIds == { 1, 2 }

NoHandshake == [ pc |-> "idle", peer_id |-> "", fingerprint |-> "", known |-> { },
                 asked |-> FALSE, answer |-> "", result |-> "" ]

\* check_cert up to the return of get_known_fingerprint
check_cert_lookup(h, server_name, cert) ==
    /\ handshakes[h].pc = "idle"
    /\ LET peer_id == clean_peer_id(server_name)
       IN  handshakes' = [ handshakes EXCEPT ![h] =
               [ NoHandshake EXCEPT !.pc = "looked", !.peer_id = peer_id,
                                    !.fingerprint = fingerprint_of(cert),
                                    !.known = get_known_fingerprint(known_hosts, peer_id) ] ]
    /\ UNCHANGED << known_hosts, hosts_file, tofu_callback, tofu_last, transferVars,
                    discVars, poolVars >>

\* check_cert from there: the branch taken on what the lookup returned, the
\* callback's answer if it is asked, save_known_host if the outcome is to accept
check_cert_decide(h, answer, write_ok) ==
    /\ handshakes[h].pc = "looked"
    /\ LET t == handshakes[h]
           outcome == check_cert_outcome(t.known, t.fingerprint, tofu_callback, answer)
           asked == tofu_callback /\ t.known # { t.fingerprint }
       IN  /\ IF outcome = "Accept"
              THEN save_known_host(t.peer_id, t.fingerprint, write_ok)
              ELSE UNCHANGED << known_hosts, hosts_file >>
           /\ handshakes' = [ handshakes EXCEPT ![h] =
                  [ t EXCEPT !.pc = "done", !.asked = asked,
                             !.answer = IF asked THEN answer ELSE "",
                             !.result = IF outcome = "Accept" THEN "Ok" ELSE outcome ] ]
    /\ UNCHANGED << tofu_callback, tofu_last, transferVars, discVars, poolVars >>

\* a SecurityManager just constructed and two handshakes about to verify
InitHandshakes ==
    /\ \E P \in SUBSET { "10.0.0.7" } :
           known_hosts \in [ P -> Fingerprints ]
    /\ hosts_file = known_hosts
    /\ tofu_callback \in BOOLEAN
    /\ tofu_last = NoCheck
    /\ handshakes = [ h \in HandshakeIds |-> NoHandshake ]
    /\ InitDiscovery
    /\ InitPool
    /\ InitAux
    /\ req = << >>
    /\ outTask = << >>
    /\ inTask = << >>
    /\ wire = << >>
    /\ outgoingAvail = OUTGOING_PERMITS
    /\ incomingAvail = INCOMING_PERMITS
    /\ otherSends = 0
    /\ otherIncoming = 0
    /\ pending = << >>
    /\ chan = << >>
    /\ whitelist = InitialWhitelist
    /\ fs = << >>
    /\ data = << >>
    /\ dev_mode = FALSE

NextHandshakes ==
    \/ \E h \in HandshakeIds, server_name \in ServerNames, cert \in Certs :
           check_cert_lookup(h, server_name, cert)
    \/ \E h \in HandshakeIds, answer \in CallbackAnswers, write_ok \in BOOLEAN :
           check_cert_decide(h, answer, write_ok)

SpecHandshakes == InitHandshakes /\ [][NextHandshakes]_vars

\* C37: once a fingerprint is recorded for a peer, a check_cert call that
\* presents a different fingerprint for that peer is accepted, or changes the
\* record, only if the callback was asked and answered Accept; also when two
\* handshakes for the peer ran their lookups while no record existed.
C37_PinStableUnderConcurrency ==
    [][ \A h \in HandshakeIds :
          ( /\ handshakes[h].pc = "looked"
            /\ handshakes'[h].pc = "done"
            /\ handshakes[h].peer_id \in DOMAIN known_hosts
            /\ known_hosts[handshakes[h].peer_id] # handshakes[h].fingerprint )
          => ( ( \/ handshakes'[h].result = "Ok"
                 \/ known_hosts'[handshakes[h].peer_id] # known_hosts[handshakes[h].peer_id] )
               => ( handshakes'[h].asked /\ handshakes'[h].answer = "Accept" ) ) ]_vars

----------------------------------------------------------------------------
(* The host's view of the peers against the peer table                     *)

\* no probe task is between its on_peer_lost and its remove
NoHandlerMidStep == \A id \in DOMAIN probe_removing : probe_removing[id] = 0

\* the ids of the on_peer_lost calls of the step
LostCalled(calls) == { calls[i].id : i \in { j \in 1..Len(calls) : calls[j].fn = "on_peer_lost" } }

\* the host shows the peers of the table when no handler is mid-step
HostViewMatchesTable == NoHandlerMidStep => host_peers = DOMAIN known_peers

\* the step calls on_peer_lost only for peers the host still shows
LostOnlyForShownPeers == LostCalled(peer_calls') \subseteq host_peers

\* C38: whenever no discovery handler is mid-step the ids the host was told
\* found and not told lost since are the ids in the peer table, under every
\* interleaving of the event loop with the probe tasks; and on_peer_lost is
\* called only for a peer the host still shows, never twice for one removal.
C38_HostViewMatchesTable ==
    /\ []HostViewMatchesTable
    /\ [][LostOnlyForShownPeers]_vars

(***************************************************************************)
(* The accept loop of start_service (engine.rs): one task calls            *)
(* transport.accept().await and spawns handle_incoming for what it         *)
(* returns. TcpTransport::accept awaits the TLS handshake, QuicTransport:: *)
(* accept the QUIC handshake and the first stream, PlainTcpTransport::     *)
(* accept returns the socket as it is.                                     *)
(***************************************************************************)

Remotes == { 1, 2, 3 }

\* a remote that stalls halts before accept would return: in TCP mode it never
\* finishes the TLS handshake, in QUIC mode it never opens a stream
Halts(r) ==
    /\ listener.stalls[r]
    /\ \/ listener.mode = "Tcp" /\ listener.remote[r] = "connected"
       \/ listener.mode = "Quic" /\ listener.remote[r] = "shook"

\* the remote connects: the connection waits at the listener socket or endpoint
remote_connects(r) ==
    /\ listener.remote[r] = "away"
    /\ listener' = [ listener EXCEPT !.remote[r] = "connected", !.backlog = Append(@, r) ]
    /\ UNCHANGED << coreVars, secVars, discVars, poolVars, pipe, node, scan, browse >>

\* the remote does its part of the TLS or QUIC handshake
remote_handshakes(r) ==
    /\ listener.mode \in { "Tcp", "Quic" }
    /\ listener.remote[r] = "connected"
    /\ ~Halts(r)
    /\ listener' = [ listener EXCEPT !.remote[r] = "shook" ]
    /\ UNCHANGED << coreVars, secVars, discVars, poolVars, pipe, node, scan, browse >>

\* the remote opens a bidirectional stream on its QUIC connection
remote_opens_stream(r) ==
    /\ listener.mode = "Quic"
    /\ listener.remote[r] = "shook"
    /\ ~Halts(r)
    /\ listener' = [ listener EXCEPT !.remote[r] = "opened" ]
    /\ UNCHANGED << coreVars, secVars, discVars, poolVars, pipe, node, scan, browse >>

\* a remote that stalled gives up and closes
remote_closes(r) ==
    /\ Halts(r)
    /\ listener' = [ listener EXCEPT !.remote[r] = "closed" ]
    /\ UNCHANGED << coreVars, secVars, discVars, poolVars, pipe, node, scan, browse >>

\* the loop's Ok arm: tokio::spawn of handle_incoming, then accept again
spawn_handle_incoming(l, r) ==
    [ l EXCEPT !.pc = "accept", !.cur = 0, !.served = @ \cup { r } ]

\* accept: listener.accept().await / endpoint.accept().await takes the next
\* connection; the plain transport returns it at once
accept_next ==
    /\ listener.pc = "accept"
    /\ listener.backlog # << >>
    /\ LET r == Head(listener.backlog)
           taken == [ listener EXCEPT !.backlog = Tail(@), !.cur = r ]
       IN  listener' = IF listener.mode = "PlainTcp"
                       THEN spawn_handle_incoming(taken, r)
                       ELSE [ taken EXCEPT !.pc = "handshake" ]
    /\ UNCHANGED << coreVars, secVars, discVars, poolVars, pipe, node, scan, browse >>

\* accept: self.acceptor.accept(stream).await? / connecting.await? completes
accept_handshake ==
    /\ listener.pc = "handshake"
    /\ listener.remote[listener.cur] \in { "shook", "opened" }
    /\ listener' = IF listener.mode = "Tcp"
                   THEN spawn_handle_incoming(listener, listener.cur)
                   ELSE [ listener EXCEPT !.pc = "stream" ]
    /\ UNCHANGED << coreVars, secVars, discVars, poolVars, pipe, node, scan, browse >>

\* accept: connection.accept_bi().await? returns the remote's stream
accept_stream ==
    /\ listener.pc = "stream"
    /\ listener.remote[listener.cur] = "opened"
    /\ listener' = spawn_handle_incoming(listener, listener.cur)
    /\ UNCHANGED << coreVars, secVars, discVars, poolVars, pipe, node, scan, browse >>

\* accept returns Err, the remote having closed: the loop sleeps 50 ms and
\* calls accept again
accept_err ==
    /\ listener.pc \in { "handshake", "stream" }
    /\ listener.remote[listener.cur] = "closed"
    /\ listener' = [ listener EXCEPT !.pc = "accept", !.cur = 0 ]
    /\ UNCHANGED << coreVars, secVars, discVars, poolVars, pipe, node, scan, browse >>

\* start_service has spawned the loop in one of the three modes; nobody has
\* connected; some of the remotes are going to stall
InitAccept ==
    /\ \E mode \in TransportModes, stalls \in [ Remotes -> BOOLEAN ] :
           listener = [ mode |-> mode, stalls |-> stalls, backlog |-> << >>,
                        remote |-> [ r \in Remotes |-> "away" ],
                        pc |-> "accept", cur |-> 0, served |-> { } ]
    /\ pipe = << >>
    /\ node = << >>
    /\ scan = << >>
    /\ browse = << >>
    /\ InitIdle

accept_loop == accept_next \/ accept_handshake \/ accept_stream \/ accept_err

NextAccept ==
    \/ \E r \in Remotes : remote_connects(r)
    \/ \E r \in Remotes : remote_handshakes(r)
    \/ \E r \in Remotes : remote_opens_stream(r)
    \/ \E r \in Remotes : remote_closes(r)
    \/ accept_next
    \/ accept_handshake
    \/ accept_stream
    \/ accept_err

\* the loop task is scheduled whenever it can go on, and a remote that does not
\* stall does its part; a remote that stalls may stay as it is for ever
SpecAccept ==
    /\ InitAccept
    /\ [][NextAccept]_vars
    /\ WF_vars(accept_loop)
    /\ \A r \in Remotes : WF_vars(remote_handshakes(r) \/ remote_opens_stream(r))

\* C39: a remote that connects and stalls before accept returns does not keep
\* the connections of other remotes, which do their part, from being accepted
\* and handed to handle_incoming.
C39_AcceptLoopStaysResponsive ==
    \A r \in Remotes :
        ( listener.remote[r] # "away" /\ ~listener.stalls[r] ) ~> ( r \in listener.served )

----------------------------------------------------------------------------
(* The two ends of one transfer                                            *)

\* the sender of c has reported Completed
SenderCompleted(c) == Emitted(outTask[c].events, "Completed") # { }

\* handle_incoming of c has returned without committing the file
ReceiverAborted(c) == inTask[c].pc = "done" /\ Emitted(inTask[c].events, "Completed") = { }

\* C40: if the sender emits on_complete for a transfer, the receiver has
\* committed or goes on to commit the complete file and emits on_complete for
\* it; a sender never reports Completed for a transfer the receiver has
\* aborted. Stated as what must never be seen: Completed at the sender and the
\* receiver's handler returned without its own Completed.
C40_CompletionAgreed ==
    \A c \in conns : SenderCompleted(c) => ~ReceiverAborted(c)

====
